---------------------------- MODULE Spec2Model ----------------------------
(***************************************************************************)
(* A model of the distance-matrix statistics code of microbiogeo:          *)
(*   python/qiime/parse.py   DistanceMatrix (construction, getSize,        *)
(*                           flatten)                                      *)
(*   python/qiime/stats.py   DistanceMatrixStats, CorrelationStats,        *)
(*                           MantelCorrelogram (setters, mantel)           *)
(*   python/qiime/mantel.py  Mantel (constructor, runAnalysis, pearson,    *)
(*                           permute_2d)                                   *)
(*                                                                         *)
(* Conventions.  Python lists are TLA+ sequences, so element k of a Python *)
(* list (0-based) is element k+1 of the sequence.  Matrix cells keep the   *)
(* 0-based (row, column) indices of the code.  Sample identifiers are      *)
(* modelled as natural numbers.  Pearson coefficients are kept exact, as   *)
(* a sign and the reduced fraction of the squared coefficient; range       *)
(* clamping in pearson() is then the identity (Cauchy-Schwarz).            *)
(***************************************************************************)
EXTENDS Integers, Sequences, FiniteSets, TLC

VARIABLES
    \* --- DistanceMatrix (parse.py) ---
    ctor_args,      \* arguments of the last DistanceMatrix(...) call, or NoArgs
    dm,             \* the constructed DistanceMatrix, or NoDM
    dm_error,       \* exception raised by the constructor, or "none"
    flattened,      \* list returned by the last flatten() call
    flat_lower      \* "none", or the `lower` argument of that call: "lower" / "full"

dmVars == <<ctor_args, dm, dm_error, flattened, flat_lower>>

VARIABLES
    \* --- the statistics objects (stats.py) and their caller ---
    pc,             \* "ready": the caller may make a call; "returned": a call
                    \* has returned or raised and the caller looks at the outcome
    call,           \* the last call made: its name and arguments
    error,          \* exception raised by that call, or "none"
    obj,            \* class of the object the caller holds, "none" before construction
    distmats,       \* self._distmats
    num_perms       \* self._num_perms (0 while the attribute does not exist)

csVars == <<pc, call, error, obj, distmats, num_perms>>

VARIABLES
    \* --- the permutation tests (mantel.py, MantelCorrelogram.mantel) ---
    fp_errors,      \* numpy's floating-point error handling: "warn" or "raise"
    self_dm1,       \* Mantel: self._dm1
    self_dm2,       \* Mantel: self._dm2
    num_iterations, \* Mantel: self._num_iterations
    orig_stat,      \* local of the running test: the observed statistic
    better,         \* local: permuted statistics counted as at least as extreme
    perm_stats,     \* local of MantelCorrelogram.mantel: the permuted statistics
    iter,           \* local: iterations of the permutation loop done
    result          \* value returned by the last test, or NoResult

ptVars == <<fp_errors, self_dm1, self_dm2, num_iterations, orig_stat, better,
            perm_stats, iter, result>>

VARIABLES
    \* --- MantelCorrelogram.runAnalysis (stats.py): its loop over the classes ---
    class_idx,      \* local: distance classes done
    class_index,    \* local: the list of class indices, built up class by class
    num_dist,       \* local: the list of distance counts
    mantel_r,       \* local: the list of Mantel statistics
    mantel_p        \* local: the list of p-values

mcVars == <<class_idx, class_index, num_dist, mantel_r, mantel_p>>

VARIABLES
    \* --- CategoryStats (stats.py) ---
    metadata_map,   \* self._metadata_map
    categories      \* self._categories

catVars == <<metadata_map, categories>>

VARIABLES
    \* --- an attribute a caller may assign to a statistics object ---
    random_fn       \* obj.RandomFunction: the permutation function the caller
                    \* has put on the object, and the calls it has received

VARIABLES
    \* --- what the caller holds besides the object ---
    pearson_args,   \* the arguments (x_items, y_items) of the last pearson call
    pearson_r,      \* the value it returned
    held_list       \* TRUE when the caller holds the list object that is
                    \* self._distmats

VARIABLES
    \* --- the comparison script (_compare_distance_matrices.py) ---
    script_files,   \* the distance matrices parsed from the input files
    pm_args,        \* the matrices the script hands to PartialMantel
    script_error    \* exception that ended the script, or "none"

scriptVars == <<script_files, pm_args, script_error>>

VARIABLES
    \* --- the workflow (workflow.py): _collate_results ---
    wf_args,        \* the arguments of the call and the result files that exist
    wf_results,     \* the dictionary returned
    wf_error        \* exception raised by the call, or "none"

wfVars == <<wf_args, wf_results, wf_error>>

fnVars == <<pearson_args, pearson_r, held_list, scriptVars, wfVars>>

vars == <<dmVars, csVars, ptVars, mcVars, catVars, random_fn, fnVars>>

-----------------------------------------------------------------------------
(* Bounds of the model.                                                    *)

MaxDim == 4     \* largest number of rows / columns of a constructor argument
MaxCoef == 4    \* largest coefficient of the generated cell values
MaxSize == 3    \* largest distance matrix handed to a statistics object
MaxList == 3    \* longest list of distance matrices handed to a setter
MaxPerms == 2   \* largest permutation count
MaxRunSize == 3 \* largest distance matrix a permutation test is run on
MaxItems == 2   \* longest list handed to DistanceMatrixStats and CategoryStats
MaxLen == 3     \* longest list of numbers handed to pearson
MaxVal == 2     \* largest number in such a list
MaxSamples == 3 \* number of sample ids the input files of the script draw on
MaxDepths == 1  \* largest number of sampling depths of the workflow
MaxSizes == 1   \* largest number of subset sizes (and of group sizes) of a study
MaxRuns == 1    \* largest number of shuffled and of subsampled matrices

-----------------------------------------------------------------------------
(* Values shared by the whole model.                                       *)

NoArgs == [shape |-> <<0, 0>>, data |-> <<>>, SampleIds |-> <<>>,
           ObservationIds |-> <<>>, called |-> FALSE]

NoDM == [size |-> 0, SampleIds |-> <<>>, data |-> <<>>]

NoCall == [op |-> "none", matrices |-> <<>>, num_perms |-> 0]

\* A correlation coefficient r is kept exactly: nan tells NaN from a number,
\* s is the sign of r and p / q, in lowest terms, is r squared.
NoStat == [nan |-> FALSE, s |-> 0, p |-> 0, q |-> 1]

NoResult == <<>>

\* A Python value handed to a constructor or setter of the statistics
\* classes: its type; for a list or dict its elements or keys; for a
\* DistanceMatrix its sample ids; for a MetadataMap its sample ids and its
\* category names; for a str its text.
PyValue(type) == [type |-> type, items |-> <<>>, ids |-> <<>>, cats |-> <<>>, text |-> ""]

\* An attribute that has not been assigned.
NoValue == PyValue("unset")

\* No permutation function has been assigned to the object.
NoFunction == [fn |-> "unset", num_calls |-> 0]

Cells(rows, cols) == (0 .. rows - 1) \X (0 .. cols - 1)

\* Sample identifier lists used as labels: 1..k in order, and a list that
\* differs from it (another identifier for k = 1, the reverse order for k > 1).
AscIds(k) == [i \in 1 .. k |-> i]

AltIds(k) == IF k = 1 THEN <<2>> ELSE [i \in 1 .. k |-> k + 1 - i]

IdSeqs(k) == IF k = 0 THEN {<<>>} ELSE {AscIds(k), AltIds(k)}

\* The numeric arrays handed to the constructor: cell (i, j) holds a*i + b*j.
\* The family contains the zero matrix, symmetric and non-symmetric arrays,
\* and (a = 1, b = MaxCoef >= n) arrays whose n*n cells are pairwise distinct.
LinearData(rows, cols, a, b) == [p \in Cells(rows, cols) |-> a * p[1] + b * p[2]]

DataFamily(rows, cols) ==
    {LinearData(rows, cols, a, b) : a \in 0 .. MaxCoef, b \in 0 .. MaxCoef}

-----------------------------------------------------------------------------
(* parse.py: class DistanceMatrix                                          *)

\* A constructor that forgets to compare the sample ids with the observation ids.
DistanceMatrixInitNoLabelCheck(data, shape, sids, oids) ==
    IF 0 \in {shape[1], shape[2]} \/ shape[1] # shape[2]
    THEN [error |-> "ValueError", dm |-> NoDM]
    ELSE [error |-> "none",
          dm |-> [size |-> shape[1], SampleIds |-> sids, data |-> data]]

\* DistanceMatrix.__init__(data_matrix, sample_ids, observation_ids).
\* shape = <<rows, cols>> is data_matrix.shape; the sample ids label the
\* columns and the observation ids label the rows.
DistanceMatrixInit(data, shape, sids, oids) ==
    IF 0 \in {shape[1], shape[2]}
    THEN [error |-> "ValueError", dm |-> NoDM]
    ELSE IF shape[1] # shape[2]
    THEN [error |-> "ValueError", dm |-> NoDM]
    ELSE IF sids # oids
    THEN [error |-> "ValueError", dm |-> NoDM]
    ELSE [error |-> "none",
          dm |-> [size |-> shape[1], SampleIds |-> sids, data |-> data]]

\* DistanceMatrix.getSize()
getSize(m) == m.size

\* The inner loop of flatten: rows row_num .. size-1 of column col_num.
RECURSIVE FlattenRows(_, _, _, _)
FlattenRows(m, lower, col_num, row_num) ==
    IF row_num >= getSize(m)
    THEN <<>>
    ELSE (IF lower
          THEN (IF col_num < row_num THEN <<m.data[<<row_num, col_num>>]>> ELSE <<>>)
          ELSE <<m.data[<<row_num, col_num>>]>>)
         \o FlattenRows(m, lower, col_num, row_num + 1)

\* The outer loop of flatten: columns col_num .. size-1.
RECURSIVE FlattenCols(_, _, _)
FlattenCols(m, lower, col_num) ==
    IF col_num >= getSize(m)
    THEN <<>>
    ELSE FlattenRows(m, lower, col_num, 0) \o FlattenCols(m, lower, col_num + 1)

\* A flatten whose loops are nested the other way round (rows outermost).
RECURSIVE RowMajorFrom(_, _, _)
RowMajorFrom(m, lower, idx) ==
    IF idx >= m.size * m.size
    THEN <<>>
    ELSE LET row_num == idx \div m.size
             col_num == idx % m.size
         IN  (IF lower => col_num < row_num
              THEN <<m.data[<<row_num, col_num>>]>> ELSE <<>>)
             \o RowMajorFrom(m, lower, idx + 1)

FlattenRowMajor(m, lower) == RowMajorFrom(m, lower, 0)

\* A flatten that leaves the diagonal out of the full listing too.
FlattenNoDiagonal(m, lower) ==
    IF lower
    THEN FlattenCols(m, TRUE, 0)
    ELSE LET cells == SelectSeq(
                 [k \in 1 .. m.size * m.size |->
                     <<(k - 1) % m.size, (k - 1) \div m.size>>],
                 LAMBDA p : p[1] # p[2])
         IN  [k \in 1 .. Len(cells) |-> m.data[cells[k]]]

\* DistanceMatrix.flatten(lower)
Flatten(m, lower) == FlattenCols(m, lower, 0)

-----------------------------------------------------------------------------
(* Specification SpecDM: one DistanceMatrix is constructed and flattened.  *)

\* No DistanceMatrix call has been made.
DmIdle ==
    /\ ctor_args = NoArgs
    /\ dm = NoDM
    /\ dm_error = "none"
    /\ flattened = <<>>
    /\ flat_lower = "none"

\* No statistics object exists and no call is in progress.
CsIdle ==
    /\ pc = "ready"
    /\ call = NoCall
    /\ error = "none"
    /\ obj = "none"
    /\ distmats = <<>>
    /\ num_perms = 0

\* No permutation test object exists and no test has run.
PtIdle ==
    /\ fp_errors = "warn"
    /\ self_dm1 = NoDM
    /\ self_dm2 = NoDM
    /\ num_iterations = 0
    /\ orig_stat = NoStat
    /\ better = 0
    /\ perm_stats = <<>>
    /\ iter = 0
    /\ result = NoResult

\* No correlogram is being computed.
McIdle ==
    /\ class_idx = 0
    /\ class_index = <<>>
    /\ num_dist = <<>>
    /\ mantel_r = <<>>
    /\ mantel_p = <<>>

\* No CategoryStats attribute is set, and no permutation function is.
CatIdle ==
    /\ metadata_map = NoValue
    /\ categories = NoValue
    /\ random_fn = NoFunction

\* No function has been called on its own, and the caller holds no list.
FnIdle ==
    /\ pearson_args = <<>>
    /\ pearson_r = NoStat
    /\ held_list = FALSE
    /\ script_files = <<>>
    /\ pm_args = <<>>
    /\ script_error = "none"
    /\ wf_args = <<>>
    /\ wf_results = <<>>
    /\ wf_error = "none"

InitDM == DmIdle /\ CsIdle /\ PtIdle /\ McIdle /\ CatIdle /\ FnIdle

\* DistanceMatrix(data, sample_ids, observation_ids)
Construct ==
    /\ ~ctor_args.called
    /\ \E rows \in 0 .. MaxDim, cols \in 0 .. MaxDim :
         \E data \in DataFamily(rows, cols),
            sids \in IdSeqs(cols), oids \in IdSeqs(rows) :
            LET res == DistanceMatrixInit(data, <<rows, cols>>, sids, oids) IN
            /\ ctor_args' = [shape |-> <<rows, cols>>, data |-> data,
                             SampleIds |-> sids, ObservationIds |-> oids,
                             called |-> TRUE]
            /\ dm' = res.dm
            /\ dm_error' = res.error
    /\ UNCHANGED <<flattened, flat_lower, csVars, random_fn, fnVars, ptVars, mcVars, catVars>>

\* dm.flatten() / dm.flatten(lower=True)
FlattenLower ==
    /\ ctor_args.called
    /\ dm_error = "none"
    /\ flattened' = Flatten(dm, TRUE)
    /\ flat_lower' = "lower"
    /\ UNCHANGED <<ctor_args, dm, dm_error, csVars, random_fn, fnVars, ptVars, mcVars, catVars>>

\* dm.flatten(lower=False)
FlattenFull ==
    /\ ctor_args.called
    /\ dm_error = "none"
    /\ flattened' = Flatten(dm, FALSE)
    /\ flat_lower' = "full"
    /\ UNCHANGED <<ctor_args, dm, dm_error, csVars, random_fn, fnVars, ptVars, mcVars, catVars>>

NextDM == Construct \/ FlattenLower \/ FlattenFull

SpecDM == InitDM /\ [][NextDM]_vars

-----------------------------------------------------------------------------
(* Claims about DistanceMatrix, checked under SpecDM.                      *)

\* The strictly-lower-triangular cells of an n x n matrix, and their
\* column-major order (leftmost column first, top to bottom within a column).
LowerCells(n) == {p \in Cells(n, n) : p[1] > p[2]}

ColumnMajorBefore(q, p) == q[2] < p[2] \/ (q[2] = p[2] /\ q[1] < p[1])

\* The k-th (1-based) strictly-lower cell in column-major order; it depends on
\* n and k only, never on the matrix.
LowerPos(n, k) ==
    CHOOSE p \in LowerCells(n) :
        Cardinality({q \in LowerCells(n) : ColumnMajorBefore(q, p)}) = k - 1

IsSymmetric(m) ==
    \A p \in Cells(m.size, m.size) : m.data[p] = m.data[<<p[2], p[1]>>]

\* C1: flatten(lower=True) of an n x n matrix has n(n-1)/2 entries, entry k
\* is the k-th strictly-lower cell (row > column) in column-major order, and
\* this holds with the same positions for every other n x n matrix with the
\* same labels, so two flattenings are aligned position by position.
C1_FlattenLowerAligned ==
    flat_lower = "lower" =>
        LET n == getSize(dm) IN
        /\ Len(flattened) = (n * (n - 1)) \div 2
        /\ \A k \in 1 .. Len(flattened) :
              /\ LowerPos(n, k)[1] > LowerPos(n, k)[2]
              /\ flattened[k] = dm.data[LowerPos(n, k)]
        /\ \A other \in DataFamily(n, n) :
              LET flat2 == Flatten([dm EXCEPT !.data = other], TRUE) IN
              /\ Len(flat2) = Len(flattened)
              /\ \A k \in 1 .. Len(flat2) : flat2[k] = other[LowerPos(n, k)]

\* A lower flattening of a matrix of the largest size whose cells are all
\* different, so that any other order of the cells would show.
C1_Witness ==
    /\ flat_lower = "lower"
    /\ getSize(dm) = MaxDim
    /\ Cardinality({flattened[k] : k \in 1 .. Len(flattened)})
          = (MaxDim * (MaxDim - 1)) \div 2

\* C2 as stated: flatten(lower=False) lists the cells row by row, entry k
\* (0-based) being the cell at row (k div n), column (k mod n).
C2_FlattenFullRowByRow ==
    flat_lower = "full" =>
        LET n == getSize(dm) IN
        /\ Len(flattened) = n * n
        /\ \A k \in 0 .. n * n - 1 :
              flattened[k + 1] = dm.data[<<k \div n, k % n>>]

\* C2 as amended: flatten(lower=False) lists all n*n cells, the diagonal
\* included, column by column: entry k (0-based) is the cell at row
\* (k mod n), column (k div n).  For a symmetric matrix that is also the
\* row-by-row listing.
C2_FlattenFullColumnByColumn ==
    flat_lower = "full" =>
        LET n == getSize(dm) IN
        /\ Len(flattened) = n * n
        /\ \A k \in 0 .. n * n - 1 :
              /\ flattened[k + 1] = dm.data[<<k % n, k \div n>>]
              /\ IsSymmetric(dm) => flattened[k + 1] = dm.data[<<k \div n, k % n>>]

\* A full flattening of a matrix that is not symmetric.
C2_Witness ==
    /\ flat_lower = "full"
    /\ getSize(dm) >= 2
    /\ ~IsSymmetric(dm)

\* C3: construction raises exactly when the data has a zero-length
\* dimension, is not square, or the sample (column) labels differ from the
\* observation (row) labels; otherwise it succeeds, also for a 1x1 matrix,
\* and getSize returns the number of rows.
C3_ConstructorValidates ==
    ctor_args.called =>
        LET rows == ctor_args.shape[1]
            cols == ctor_args.shape[2]
        IN
        /\ dm_error \in {"none", "ValueError"}
        /\ dm_error = "ValueError" <=>
              \/ rows = 0
              \/ cols = 0
              \/ rows # cols
              \/ ctor_args.SampleIds # ctor_args.ObservationIds
        /\ dm_error = "none" =>
              /\ getSize(dm) = rows
              /\ dm.SampleIds = ctor_args.SampleIds
              /\ dm.data = ctor_args.data

\* A 1x1 matrix with matching labels has been constructed.
C3_Witness ==
    /\ ctor_args.called
    /\ ctor_args.shape = <<1, 1>>
    /\ dm_error = "none"
    /\ getSize(dm) = 1

-----------------------------------------------------------------------------
(* The distance matrices handed to the statistics objects.                 *)

Max(a, b) == IF a >= b THEN a ELSE b

Min(a, b) == IF a <= b THEN a ELSE b

\* 0-based position of the strictly-lower cell (i, j), i > j, of an n x n
\* matrix in the list flatten() returns.
LowerIndex(n, i, j) == (j * (2 * n - j - 1)) \div 2 + (i - j - 1)

\* Off-diagonal values of the generated matrices, by position t of d in the
\* lower triangle: "asc" is 1, 2, 3, ... (the 3x3 test matrix m1), "desc" its
\* reverse, "const" has no variance, "quad" is 1, 2, 5, 10, ...,
\* "gap" is 1, 5, 5, ... (nothing between the extremes) and "far" is 5, 6, 7, ...
PatternValue(pat, t, d) ==
    CASE pat = "asc" -> t + 1
      [] pat = "desc" -> d - t
      [] pat = "const" -> 1
      [] pat = "quad" -> t * t + 1
      [] pat = "gap" -> IF t = 0 THEN 1 ELSE 5
      [] pat = "far" -> t + 5

\* A symmetric array with a zero diagonal.
HollowData(n, pat) ==
    [p \in Cells(n, n) |->
        IF p[1] = p[2]
        THEN 0
        ELSE PatternValue(pat, LowerIndex(n, Max(p[1], p[2]), Min(p[1], p[2])),
                          (n * (n - 1)) \div 2)]

\* DistanceMatrix(data, ids, ids)
MakeDM(n, ids, pat) == DistanceMatrixInit(HollowData(n, pat), <<n, n>>, ids, ids).dm

\* The matrices handed to constructors and setters: every size up to
\* MaxSize, with two different sample id lists each.
SetterDMs ==
    UNION {{MakeDM(n, ids, "asc") : ids \in IdSeqs(n)} : n \in 1 .. MaxSize}

\* The lists of matrices handed to constructors and setters.
DMLists == UNION {[1 .. k -> SetterDMs] : k \in 0 .. MaxList}

\* The permutation counts handed to constructors and setters.
NumPermsArgs == -1 .. MaxPerms

\* A Python value: its type and, for a list, its items.
PyList(items) == [type |-> "list", items |-> items]

\* A list or a tuple of the items: a tuple has a length and elements as a
\* list has, and is not a list.
PySequence(type, items) == [type |-> type, items |-> items]

SequenceTypes == {"list", "tuple"}

-----------------------------------------------------------------------------
(* stats.py: DistanceMatrixStats, CorrelationStats, MantelCorrelogram.     *)
(* A setter is an operator from the current attribute value and the        *)
(* argument to the exception raised ("none" if none) and the new attribute *)
(* value; a setter that raises leaves the attribute as it was.             *)

\* DistanceMatrixStats.getDistanceMatrices
getDistanceMatrices(self_distmats) == self_distmats

\* DistanceMatrixStats.setDistanceMatrices
DMS_setDistanceMatrices(self_distmats, matrices) ==
    IF matrices.type # "list"
    THEN [error |-> "TypeError", distmats |-> self_distmats]
    ELSE [error |-> "none", distmats |-> matrices.items]

\* A CorrelationStats setter that compares the sizes only.
CS_setDistanceMatricesNoIdCheck(self_distmats, matrices) ==
    IF Len(matrices.items) < 1
    THEN [error |-> "ValueError", distmats |-> self_distmats]
    ELSE IF \E k \in 1 .. Len(matrices.items) :
                getSize(matrices.items[k]) # getSize(matrices.items[1])
    THEN [error |-> "ValueError", distmats |-> self_distmats]
    ELSE DMS_setDistanceMatrices(self_distmats, matrices)

\* A CorrelationStats setter that stores the matrices before it looks at them.
CS_setDistanceMatricesStoreFirst(self_distmats, matrices) ==
    IF Len(matrices.items) < 1
    THEN [error |-> "ValueError", distmats |-> matrices.items]
    ELSE IF \E k \in 1 .. Len(matrices.items) :
                \/ getSize(matrices.items[k]) # getSize(matrices.items[1])
                \/ matrices.items[k].SampleIds # matrices.items[1].SampleIds
    THEN [error |-> "ValueError", distmats |-> matrices.items]
    ELSE DMS_setDistanceMatrices(self_distmats, matrices)

\* CorrelationStats.setDistanceMatrices (called with a list or a tuple)
CS_setDistanceMatrices(self_distmats, matrices) ==
    IF Len(matrices.items) < 1
    THEN [error |-> "ValueError", distmats |-> self_distmats]
    ELSE LET size == getSize(matrices.items[1])
             sample_ids == matrices.items[1].SampleIds
         IN  IF \E k \in 1 .. Len(matrices.items) :
                    \/ getSize(matrices.items[k]) # size
                    \/ matrices.items[k].SampleIds # sample_ids
             THEN [error |-> "ValueError", distmats |-> self_distmats]
             ELSE DMS_setDistanceMatrices(self_distmats, matrices)

\* CorrelationStats.__init__ -> DistanceMatrixStats.__init__, which calls
\* self.setDistanceMatrices (the override of the object's class).
CorrelationStatsInit(matrices) == CS_setDistanceMatrices(<<>>, matrices)

\* A MantelCorrelogram setter that only refuses more than two matrices.
MC_setDistanceMatricesAtMostTwo(self_distmats, matrices) ==
    IF Len(matrices.items) > 2
    THEN [error |-> "ValueError", distmats |-> self_distmats]
    ELSE CS_setDistanceMatrices(self_distmats, matrices)

\* MantelCorrelogram.setDistanceMatrices (called with a list or a tuple)
MC_setDistanceMatrices(self_distmats, matrices) ==
    IF Len(matrices.items) # 2
    THEN [error |-> "ValueError", distmats |-> self_distmats]
    ELSE CS_setDistanceMatrices(self_distmats, matrices)

\* MantelCorrelogram.setNumPermutations
MC_setNumPermutations(self_num_perms, n) ==
    IF n >= 0
    THEN [error |-> "none", num_perms |-> n]
    ELSE [error |-> "ValueError", num_perms |-> self_num_perms]

\* MantelCorrelogram.__init__(dm1, dm2, num_perms)
MantelCorrelogramInit(dm1, dm2, n) ==
    LET set_dms == MC_setDistanceMatrices(<<>>, PyList(<<dm1, dm2>>)) IN
    IF set_dms.error # "none"
    THEN [error |-> set_dms.error, distmats |-> <<>>, num_perms |-> 0]
    ELSE LET set_n == MC_setNumPermutations(0, n) IN
         IF set_n.error # "none"
         THEN [error |-> set_n.error, distmats |-> <<>>, num_perms |-> 0]
         ELSE [error |-> "none", distmats |-> set_dms.distmats,
               num_perms |-> set_n.num_perms]

-----------------------------------------------------------------------------
(* Specification SpecCS: a caller constructs a CorrelationStats or a       *)
(* MantelCorrelogram and calls its setters, looking at the outcome of each *)
(* call before making the next.                                            *)

InitCS == DmIdle /\ CsIdle /\ PtIdle /\ McIdle /\ CatIdle /\ FnIdle

\* CorrelationStats(matrices)
NewCorrelationStats ==
    /\ pc = "ready"
    /\ obj = "none"
    /\ \E matrices \in DMLists :
         LET res == CorrelationStatsInit(PyList(matrices)) IN
         /\ call' = [op |-> "CorrelationStats", matrices |-> matrices, num_perms |-> 0]
         /\ error' = res.error
         /\ obj' = IF res.error = "none" THEN "CorrelationStats" ELSE "none"
         /\ distmats' = res.distmats
    /\ pc' = "returned"
    /\ UNCHANGED <<num_perms, dmVars, random_fn, fnVars, ptVars, mcVars, catVars>>

\* cs.setDistanceMatrices(matrices)
CsSetDistanceMatrices ==
    /\ pc = "ready"
    /\ obj = "CorrelationStats"
    /\ \E matrices \in DMLists, type \in SequenceTypes :
         LET res == CS_setDistanceMatrices(distmats, PySequence(type, matrices)) IN
         /\ call' = [op |-> IF type = "list"
                            THEN "CorrelationStats.setDistanceMatrices"
                            ELSE "CorrelationStats.setDistanceMatrices(tuple)",
                     matrices |-> matrices, num_perms |-> 0]
         /\ error' = res.error
         /\ distmats' = res.distmats
    /\ pc' = "returned"
    /\ UNCHANGED <<obj, num_perms, dmVars, random_fn, fnVars, ptVars, mcVars, catVars>>

\* MantelCorrelogram(dm1, dm2, num_perms), the matrices taken from dms
NewMantelCorrelogramOf(dms) ==
    /\ pc = "ready"
    /\ obj = "none"
    /\ \E dm1 \in dms, dm2 \in dms, n \in NumPermsArgs :
         LET res == MantelCorrelogramInit(dm1, dm2, n) IN
         /\ call' = [op |-> "MantelCorrelogram", matrices |-> <<dm1, dm2>>,
                     num_perms |-> n]
         /\ error' = res.error
         /\ obj' = IF res.error = "none" THEN "MantelCorrelogram" ELSE "none"
         /\ distmats' = res.distmats
         /\ num_perms' = res.num_perms
    /\ pc' = "returned"
    /\ UNCHANGED <<dmVars, random_fn, fnVars, ptVars, mcVars, catVars>>

NewMantelCorrelogram == NewMantelCorrelogramOf(SetterDMs)

\* mc.setDistanceMatrices(matrices)
McSetDistanceMatrices ==
    /\ pc = "ready"
    /\ obj = "MantelCorrelogram"
    /\ \E matrices \in DMLists, type \in SequenceTypes :
         LET res == MC_setDistanceMatrices(distmats, PySequence(type, matrices)) IN
         /\ call' = [op |-> IF type = "list"
                            THEN "MantelCorrelogram.setDistanceMatrices"
                            ELSE "MantelCorrelogram.setDistanceMatrices(tuple)",
                     matrices |-> matrices, num_perms |-> 0]
         /\ error' = res.error
         /\ distmats' = res.distmats
    /\ pc' = "returned"
    /\ UNCHANGED <<obj, num_perms, dmVars, random_fn, fnVars, ptVars, mcVars, catVars>>

\* mc.setNumPermutations(num_perms)
McSetNumPermutations ==
    /\ pc = "ready"
    /\ obj = "MantelCorrelogram"
    /\ \E n \in NumPermsArgs :
         LET res == MC_setNumPermutations(num_perms, n) IN
         /\ call' = [op |-> "MantelCorrelogram.setNumPermutations",
                     matrices |-> <<>>, num_perms |-> n]
         /\ error' = res.error
         /\ num_perms' = res.num_perms
    /\ pc' = "returned"
    /\ UNCHANGED <<obj, distmats, dmVars, random_fn, fnVars, ptVars, mcVars, catVars>>

\* The caller has seen the outcome of the call and goes on.
Resume ==
    /\ pc = "returned"
    /\ pc' = "ready"
    /\ call' = NoCall
    /\ error' = "none"
    /\ orig_stat' = NoStat
    /\ better' = 0
    /\ perm_stats' = <<>>
    /\ iter' = 0
    /\ result' = NoResult
    /\ class_idx' = 0
    /\ class_index' = <<>>
    /\ num_dist' = <<>>
    /\ mantel_r' = <<>>
    /\ mantel_p' = <<>>
    /\ UNCHANGED <<obj, distmats, num_perms, dmVars, random_fn, fnVars, catVars,
                   fp_errors, self_dm1, self_dm2, num_iterations>>

NextCS ==
    \/ NewCorrelationStats
    \/ CsSetDistanceMatrices
    \/ NewMantelCorrelogram
    \/ McSetDistanceMatrices
    \/ McSetNumPermutations
    \/ Resume

SpecCS == InitCS /\ [][NextCS]_vars

-----------------------------------------------------------------------------
(* Claims about the constructors and setters, checked under SpecCS.        *)

\* The list handed to the call disagrees in size or in sample ids.
Disagree(ms) ==
    \E k \in 1 .. Len(ms) :
        \/ getSize(ms[k]) # getSize(ms[1])
        \/ ms[k].SampleIds # ms[1].SampleIds

\* C4: constructing a CorrelationStats, or setting its distance matrices,
\* raises ValueError exactly when the list is empty, or some matrix differs
\* from the first in size or in its sample id sequence (order included);
\* any other list is accepted and returned by the getter.
C4_CorrelationStatsValidates ==
    (pc = "returned" /\ call.op \in {"CorrelationStats",
                                     "CorrelationStats.setDistanceMatrices"}) =>
        LET bad == Len(call.matrices) = 0 \/ Disagree(call.matrices) IN
        /\ error \in {"none", "ValueError"}
        /\ error = "ValueError" <=> bad
        /\ ~bad => /\ obj = "CorrelationStats"
                   /\ getDistanceMatrices(distmats) = call.matrices

\* A setter call with three agreeing matrices has been accepted.
C4_Witness ==
    /\ pc = "returned"
    /\ call.op = "CorrelationStats.setDistanceMatrices"
    /\ Len(call.matrices) = 3
    /\ error = "none"
    /\ getDistanceMatrices(distmats) = call.matrices

\* C10: constructing a MantelCorrelogram, or setting its distance matrices,
\* with matrices of fewer than 3 samples raises ValueError, so a
\* MantelCorrelogram never holds a matrix of fewer than 3 samples.
C10_TooSmallRejected ==
    /\ (pc = "returned" /\ call.op \in {"MantelCorrelogram",
                                        "MantelCorrelogram.setDistanceMatrices"}
                        /\ \E k \in 1 .. Len(call.matrices) :
                               getSize(call.matrices[k]) < 3)
          => error = "ValueError"
    /\ obj = "MantelCorrelogram" =>
          \A k \in 1 .. Len(distmats) : getSize(distmats[k]) >= 3

-----------------------------------------------------------------------------
(* Exact arithmetic for correlation coefficients and p-values.             *)

RECURSIVE GCD(_, _)
GCD(a, b) == IF b = 0 THEN a ELSE GCD(b, a % b)

Sign(x) == IF x > 0 THEN 1 ELSE IF x < 0 THEN -1 ELSE 0

NaN == [nan |-> TRUE, s |-> 0, p |-> 0, q |-> 1]

Zero == [nan |-> FALSE, s |-> 0, p |-> 0, q |-> 1]

One == [nan |-> FALSE, s |-> 1, p |-> 1, q |-> 1]

\* The number num / sqrt(den2), den2 > 0.
Coefficient(num, den2) ==
    IF num = 0
    THEN Zero
    ELSE LET g == GCD(num * num, den2) IN
         [nan |-> FALSE, s |-> Sign(num), p |-> (num * num) \div g, q |-> den2 \div g]

\* a / b >= c / d for naturals a, c and positive b, d, without products.
RECURSIVE FracGeq(_, _, _, _)
FracGeq(a, b, c, d) ==
    IF a \div b # c \div d THEN a \div b > c \div d
    ELSE IF c % d = 0 THEN TRUE
    ELSE IF a % b = 0 THEN FALSE
    ELSE FracGeq(d, c % d, b, a % b)

\* Python's a >= b on floats: false as soon as one side is NaN.
Geq(a, b) ==
    /\ ~a.nan
    /\ ~b.nan
    /\ IF a.s >= 0 /\ b.s <= 0 THEN TRUE
       ELSE IF a.s > 0 /\ b.s > 0 THEN FracGeq(a.p, a.q, b.p, b.q)
       ELSE IF a.s < 0 /\ b.s < 0 THEN FracGeq(b.p, b.q, a.p, a.q)
       ELSE FALSE

\* abs(r)
Abs(r) == [r EXCEPT !.s = IF r.s < 0 THEN 1 ELSE r.s]

\* -r
Neg(r) == [r EXCEPT !.s = 0 - r.s]

\* A p-value: "not applicable", or the fraction num / den in lowest terms.
NA == [na |-> TRUE, num |-> 0, den |-> 1]

Fraction(a, b) ==
    LET g == GCD(a, b) IN
    IF g = 0 THEN [na |-> FALSE, num |-> a, den |-> b]
    ELSE [na |-> FALSE, num |-> a \div g, den |-> b \div g]

RECURSIVE SumSeq(_)
SumSeq(xs) == IF xs = <<>> THEN 0 ELSE Head(xs) + SumSeq(Tail(xs))

\* Elementwise product of two arrays of the same length.
Times(xs, ys) == [k \in 1 .. Len(xs) |-> xs[k] * ys[k]]

-----------------------------------------------------------------------------
(* mantel.py: pearson, permute_2d; numpy: ravel, permutation.              *)

\* pearson(x_items, y_items).  The division is a numpy division: with a zero
\* denominator it yields nan (0/0) or an infinity, which the range check then
\* clamps, unless numpy is set to raise on floating-point errors
\* (fpe = "raise"), in which case the except clause makes r = 0.0.
Pearson(x_items, y_items, fpe) ==
    LET sum_x == SumSeq(x_items)
        sum_y == SumSeq(y_items)
        sum_x_sq == SumSeq(Times(x_items, x_items))
        sum_y_sq == SumSeq(Times(y_items, y_items))
        sum_xy == SumSeq(Times(x_items, y_items))
        n == Len(x_items)
        numerator == (n * sum_xy) - (sum_x * sum_y)
        var_x == (n * sum_x_sq) - (sum_x * sum_x)
        var_y == (n * sum_y_sq) - (sum_y * sum_y)
    IN  IF var_x = 0 \/ var_y = 0
        THEN IF fpe = "raise" THEN Zero
             ELSE IF numerator = 0 THEN NaN
             ELSE [One EXCEPT !.s = Sign(numerator)]
        ELSE LET r == Coefficient(numerator, var_x * var_y) IN
             IF r.p > r.q THEN [One EXCEPT !.s = r.s] ELSE r

\* m[p]: the rows of m taken in the order p, the columns left as they are
Permute2dRowsOnly(m, n, p) == [c \in Cells(n, n) |-> m[<<p[c[1]], c[2]>>]]

\* permute_2d(m, p) = m[p][:, p] for an n x n array m
Permute2d(m, n, p) == [c \in Cells(n, n) |-> m[<<p[c[1]], p[c[2]]>>]]

\* What permute_2d(m, p) leaves in its argument m, were the permuted array
\* written back into it
Permute2dArgumentInPlace(m, n, p) == Permute2d(m, n, p)

\* What permute_2d(m, p) leaves in its argument m, which is the array of the
\* object's stored matrix (asarray does not copy): indexing with the
\* sequence p makes a new array, and m is as it was.
Permute2dArgument(m, n, p) == m

\* numpy.ravel of an n x n array: all cells, row by row
Ravel(m, n) == [k \in 1 .. n * n |-> m[<<(k - 1) \div n, (k - 1) % n>>]]

\* The values numpy.random.permutation(n) can return
RandomPermutations(n) ==
    {p \in [0 .. n - 1 -> 0 .. n - 1] : \A a, b \in 0 .. n - 1 : p[a] = p[b] => a = b}

\* The string qiime.format.format_p_value_for_num_iters (a library outside
\* this repository) makes of p and num_iters, kept as the call itself.
FormatPValue(p, num_iters) ==
    [fn |-> "format_p_value_for_num_iters", p |-> p, num_iters |-> num_iters]

\* The matrices the permutation tests are run on: every size up to
\* MaxRunSize, every pattern of off-diagonal values.
Patterns == {"asc", "desc", "const", "quad"}

RunDMs ==
    UNION {{MakeDM(n, AscIds(n), pat) : pat \in Patterns} : n \in 1 .. MaxRunSize}

-----------------------------------------------------------------------------
(* mantel.py: class Mantel.  The statistic of one permutation.             *)

\* Mantel.runAnalysis, line 49: the observed statistic
MantelOrigStat(m1, m2, fpe) ==
    Abs(Pearson(Ravel(m1.data, m1.size), Ravel(m2.data, m2.size), fpe))

\* Mantel.runAnalysis, lines 52-53: the statistic under permutation p
MantelPermStat(m1, m2, p, fpe) ==
    Abs(Pearson(Ravel(m1.data, m1.size),
                Ravel(Permute2d(m2.data, m2.size, p), m2.size), fpe))

(* stats.py: MantelCorrelogram.mantel.                                     *)

\* MantelCorrelogram.mantel, lines 355-360: the observed statistic
McOrigStat(m1, m2, fpe) == Pearson(Flatten(m1, TRUE), Flatten(m2, TRUE), fpe)

\* MantelCorrelogram.mantel, lines 365-368: the statistic under permutation p
McPermStat(m1, m2, p, fpe) ==
    Pearson(Flatten(m1, TRUE),
            Flatten([m2 EXCEPT !.data = Permute2d(m2.data, m2.size, p)], TRUE), fpe)

-----------------------------------------------------------------------------
(* Specification SpecPT: a caller constructs a Mantel or a                 *)
(* MantelCorrelogram and runs its permutation test.  The test is a loop    *)
(* that draws one random permutation per iteration.                        *)

InitPT ==
    /\ DmIdle
    /\ CsIdle
    /\ McIdle
    /\ CatIdle
    /\ FnIdle
    /\ fp_errors \in {"warn", "raise"}
    /\ self_dm1 = NoDM
    /\ self_dm2 = NoDM
    /\ num_iterations = 0
    /\ orig_stat = NoStat
    /\ better = 0
    /\ perm_stats = <<>>
    /\ iter = 0
    /\ result = NoResult

\* Mantel(initialDistanceMatrix1, initialDistanceMatrix2, num_iterates):
\* the three arguments are stored as they are.  The caller gives two
\* matrices of the same size.
NewMantel ==
    /\ pc = "ready"
    /\ obj = "none"
    /\ \E dm1 \in RunDMs, dm2 \in RunDMs, n \in NumPermsArgs :
         /\ dm1.size = dm2.size
         /\ call' = [op |-> "Mantel", matrices |-> <<dm1, dm2>>, num_perms |-> n]
         /\ self_dm1' = dm1
         /\ self_dm2' = dm2
         /\ num_iterations' = n
    /\ error' = "none"
    /\ obj' = "Mantel"
    /\ pc' = "returned"
    /\ UNCHANGED <<distmats, num_perms, dmVars, random_fn, fnVars, mcVars, catVars,
                   fp_errors, orig_stat, better, perm_stats, iter, result>>

\* Mantel.runAnalysis(fp1, fp2, dm1_labels), up to the loop
MantelRunStart ==
    /\ pc = "ready"
    /\ obj = "Mantel"
    /\ call' = [op |-> "Mantel.runAnalysis", matrices |-> <<self_dm1, self_dm2>>,
                num_perms |-> num_iterations]
    /\ orig_stat' = MantelOrigStat(self_dm1, self_dm2, fp_errors)
    /\ better' = 0
    /\ iter' = 0
    /\ pc' = "Mantel.runAnalysis"
    /\ UNCHANGED <<error, obj, distmats, num_perms, dmVars, random_fn, fnVars, mcVars, catVars,
                   fp_errors, self_dm1, self_dm2, num_iterations, perm_stats, result>>

\* One iteration of the loop of Mantel.runAnalysis
MantelRunIter ==
    /\ pc = "Mantel.runAnalysis"
    /\ iter < num_iterations
    /\ \E p \in RandomPermutations(self_dm1.size) :
         LET r == MantelPermStat(self_dm1, self_dm2, p, fp_errors) IN
         /\ better' = IF Geq(r, orig_stat) THEN better + 1 ELSE better
         /\ self_dm2' = [self_dm2 EXCEPT
                            !.data = Permute2dArgument(self_dm2.data, self_dm2.size, p)]
    /\ iter' = iter + 1
    /\ UNCHANGED <<pc, call, error, obj, distmats, num_perms, dmVars, random_fn, fnVars, mcVars, catVars,
                   fp_errors, self_dm1, num_iterations, orig_stat,
                   perm_stats, result>>

\* Mantel.runAnalysis after the loop: the result dictionary
MantelRunReturn ==
    /\ pc = "Mantel.runAnalysis"
    /\ iter >= num_iterations
    /\ result' = [Results |->
                    [fp1 |-> "fp1", fp2 |-> "fp2", entries |-> self_dm1.size,
                     p_str |-> FormatPValue(Fraction(better, 1), num_iterations)]]
    /\ pc' = "returned"
    /\ UNCHANGED <<call, error, obj, distmats, num_perms, dmVars, random_fn, fnVars, mcVars, catVars,
                   fp_errors, self_dm1, self_dm2, num_iterations, orig_stat,
                   better, perm_stats, iter>>

NewMantelCorrelogramRun == NewMantelCorrelogramOf(RunDMs)

\* mc.mantel(m1, m2, n), up to the loop, called as runAnalysis calls it:
\* m1 is a matrix of the size of the object's matrices, m2 is the first
\* (ecological) matrix and n is the object's permutation count.
McMantelStart ==
    /\ pc = "ready"
    /\ obj = "MantelCorrelogram"
    /\ \E m1 \in RunDMs :
         /\ m1.size = distmats[1].size
         /\ call' = [op |-> "MantelCorrelogram.mantel",
                     matrices |-> <<m1, distmats[1]>>, num_perms |-> num_perms]
         /\ orig_stat' = McOrigStat(m1, distmats[1], fp_errors)
    /\ better' = 0
    /\ perm_stats' = <<>>
    /\ iter' = 0
    /\ pc' = "MantelCorrelogram.mantel"
    /\ UNCHANGED <<error, obj, distmats, num_perms, dmVars, random_fn, fnVars, mcVars, catVars,
                   fp_errors, self_dm1, self_dm2, num_iterations, result>>

\* One iteration of the loop of MantelCorrelogram.mantel
McMantelIter ==
    /\ pc = "MantelCorrelogram.mantel"
    /\ iter < call.num_perms
    /\ \E p \in RandomPermutations(call.matrices[2].size) :
         LET r == McPermStat(call.matrices[1], call.matrices[2], p, fp_errors) IN
         /\ perm_stats' = Append(perm_stats, r)
         /\ better' = IF Geq(r, orig_stat) THEN better + 1 ELSE better
         /\ distmats' = [distmats EXCEPT
                            ![1].data = Permute2dArgument(distmats[1].data,
                                                          distmats[1].size, p)]
    /\ iter' = iter + 1
    /\ UNCHANGED <<pc, call, error, obj, num_perms, dmVars, random_fn, fnVars, mcVars, catVars,
                   fp_errors, self_dm1, self_dm2, num_iterations, orig_stat, result>>

\* MantelCorrelogram.mantel after the loop: the returned triple
McMantelReturn ==
    /\ pc = "MantelCorrelogram.mantel"
    /\ iter >= call.num_perms
    /\ result' = <<Fraction(better + 1, call.num_perms + 1), orig_stat, perm_stats>>
    /\ pc' = "returned"
    /\ UNCHANGED <<call, error, obj, distmats, num_perms, dmVars, random_fn, fnVars, mcVars, catVars,
                   fp_errors, self_dm1, self_dm2, num_iterations, orig_stat,
                   better, perm_stats, iter>>

NextPT ==
    \/ NewMantel
    \/ MantelRunStart
    \/ MantelRunIter
    \/ MantelRunReturn
    \/ NewMantelCorrelogramRun
    \/ McSetNumPermutations
    \/ McMantelStart
    \/ McMantelIter
    \/ McMantelReturn
    \/ Resume

SpecPT == InitPT /\ [][NextPT]_vars

-----------------------------------------------------------------------------
(* Properties of the permutation tests (specification SpecPT).             *)

\* The signed Pearson correlation of the strictly-lower-triangular
\* flattenings of two matrices.
LowerPearson(m1, m2) == Pearson(Flatten(m1, TRUE), Flatten(m2, TRUE), fp_errors)

\* A matrix whose strictly-lower-triangular values are not all the same, so
\* that its correlation with itself is defined.
Varies(m) == \E a, b \in 1 .. Len(Flatten(m, TRUE)) :
                 Flatten(m, TRUE)[a] # Flatten(m, TRUE)[b]

\* C5: a Mantel test and a Mantel correlogram given a negative permutation
\* count raise ValueError, and neither stores the negative count nor runs
\* with it.
C5_NegativePermsRejected ==
    /\ (pc = "returned" /\ call.num_perms < 0
                        /\ call.op \in {"Mantel", "MantelCorrelogram",
                                        "MantelCorrelogram.setNumPermutations"})
          => error = "ValueError"
    /\ obj = "Mantel" => num_iterations >= 0
    /\ obj = "MantelCorrelogram" => num_perms >= 0
    /\ call.op \in {"Mantel.runAnalysis", "MantelCorrelogram.mantel"}
          => call.num_perms >= 0

\* C6: a permutation test run with 0 permutations reports its p-value as
\* not applicable and still returns the observed statistic, the signed
\* Pearson correlation of the lower-triangular flattenings.
C6_NoPermsNotApplicable ==
    (pc = "returned" /\ call.num_perms = 0) =>
        /\ call.op = "MantelCorrelogram.mantel" =>
              /\ result[1] = NA
              /\ result[2] = LowerPearson(call.matrices[1], call.matrices[2])
        /\ call.op = "Mantel.runAnalysis" =>
              /\ {"p_value", "r_value"} \subseteq DOMAIN result
              /\ result["p_value"] = NA
              /\ result["r_value"] = LowerPearson(call.matrices[1], call.matrices[2])

\* C7: a Mantel test run with n >= 1 permutations reports the p-value
\* (c + 1) / (n + 1), c being the number of permuted statistics counted as
\* at least as extreme as the observed one.
C7_MantelPValue ==
    (pc = "returned" /\ call.op = "Mantel.runAnalysis" /\ call.num_perms >= 1) =>
        result.Results.p_str.p = Fraction(better + 1, call.num_perms + 1)

\* C8: the observed statistic of a Mantel test is the signed Pearson
\* correlation of the strictly-lower-triangular flattenings of its two
\* matrices, and it is 1 for a matrix tested against itself.  Both parts are
\* stated for matrices whose lower-triangular values vary, where the
\* correlation is defined.
C8_MantelObservedStatistic ==
    (pc \in {"Mantel.runAnalysis", "returned"} /\ call.op = "Mantel.runAnalysis") =>
        /\ (Varies(self_dm1) /\ Varies(self_dm2)) =>
              orig_stat = LowerPearson(self_dm1, self_dm2)
        /\ (self_dm1 = self_dm2 /\ Varies(self_dm1)) => orig_stat = One

\* C9: a Mantel test run with n permutations returns a record holding the
\* method name, the observed r, the p-value, n, the tail type and the list
\* of the permuted statistics, which has exactly n elements.
C9_MantelResultRecord ==
    (pc = "returned" /\ call.op = "Mantel.runAnalysis" /\ call.num_perms >= 0) =>
        /\ iter = call.num_perms
        /\ {"method_name", "r_value", "p_value", "num_perms", "tail_type",
            "perm_stats"} \subseteq DOMAIN result
        /\ result["num_perms"] = call.num_perms
        /\ Len(result["perm_stats"]) = call.num_perms

-----------------------------------------------------------------------------
(* stats.py: MantelCorrelogram.runAnalysis.  Python's None is the empty    *)
(* tuple and any other value v of a list that may hold None is <<v>>.      *)

None == <<>>

Some(v) == <<v>>

\* The smallest e with 2^e >= d, for d >= 1.
RECURSIVE CeilLog2(_)
CeilLog2(d) == IF d <= 1 THEN 0 ELSE 1 + CeilLog2((d + 1) \div 2)

\* The largest e with 2^e <= d, for d >= 1.
RECURSIVE FloorLog2(_)
FloorLog2(d) == IF d <= 1 THEN 0 ELSE 1 + FloorLog2(d \div 2)

\* Sturge's rule rounded down instead of up.
SturgeClassesFloor(num_dists) == 1 + FloorLog2(num_dists)

\* int(ceil(1 + log(num_dists, 2))) for num_dists >= 1.  No num_dists above 1
\* is a power of two (it is n(n-1)/2), so the rounding of log is harmless.
SturgeClasses(num_dists) == 1 + CeilLog2(num_dists)

\* Smallest and largest element of a non-empty list of integers.
MinOf(xs) == CHOOSE x \in {xs[k] : k \in 1 .. Len(xs)} :
                 \A k \in 1 .. Len(xs) : x <= xs[k]

MaxOf(xs) == CHOOSE x \in {xs[k] : k \in 1 .. Len(xs)} :
                 \A k \in 1 .. Len(xs) : x >= xs[k]

\* x - 2.2204460492503131e-16 in double precision, for an integer x >= 0, is
\* below x only for x <= 2: from 3 on the difference rounds back to x.
EpsilonMoves(x) == x <= 2

\* The list break_points for a flattened lower triangle and num_classes
\* classes.  A break point is v / num_classes, and below says that it is the
\* double just below that number.
BreakPoints(flattened_lower, num_classes) ==
    LET start_point == MinOf(flattened_lower)
        end_point == MaxOf(flattened_lower)
    IN  [k \in 1 .. num_classes + 1 |->
            IF k = num_classes + 1
            THEN [v |-> end_point * num_classes, below |-> FALSE]
            ELSE [v |-> start_point * num_classes + (end_point - start_point) * (k - 1),
                  below |-> k = 1 /\ EpsilonMoves(start_point)]]

\* bp >= dm_ele for a break point and an integer distance
BpGeq(bp, dm_ele, num_classes) ==
    IF bp.below THEN bp.v > dm_ele * num_classes ELSE bp.v >= dm_ele * num_classes

\* The class indices: the midpoints between break points, as multiples of
\* 1 / (2 * num_classes).  The half epsilon by which the first midpoint lies
\* lower is not kept.
ClassIndices(break_points, num_classes) ==
    [k \in 1 .. num_classes |-> break_points[k].v + break_points[k + 1].v]

\* min(bps): the 0-based index of the first break point >= dm_ele
DistClass(break_points, dm_ele, num_classes) ==
    (CHOOSE k \in 1 .. Len(break_points) :
        /\ BpGeq(break_points[k], dm_ele, num_classes)
        /\ \A j \in 1 .. k - 1 : ~BpGeq(break_points[j], dm_ele, num_classes)) - 1

\* dist_class_matrix: the class of every element of geo_dm.flatten(lower=False)
DistClassMatrix(geo_dm) ==
    LET num_classes == SturgeClasses((getSize(geo_dm) * (getSize(geo_dm) - 1)) \div 2)
        break_points == BreakPoints(Flatten(geo_dm, TRUE), num_classes)
        flattened_geo_dm == Flatten(geo_dm, FALSE)
    IN  [k \in 1 .. Len(flattened_geo_dm) |->
            DistClass(break_points, flattened_geo_dm[k], num_classes)]

\* The model matrix of class class_idx (0-based): element idx of the list goes
\* to column idx // dm_size, row idx % dm_size; the diagonal is zero.
ModelMatrix(geo_dm, c) ==
    LET dm_size == getSize(geo_dm)
        dist_class_matrix == DistClassMatrix(geo_dm)
        data == [cell \in Cells(dm_size, dm_size) |->
                    IF cell[1] = cell[2] THEN 0
                    ELSE IF dist_class_matrix[cell[2] * dm_size + cell[1] + 1] = c + 1
                    THEN 1 ELSE 0]
    IN  DistanceMatrixInit(data, <<dm_size, dm_size>>,
                           geo_dm.SampleIds, geo_dm.SampleIds).dm

\* model_matrix.sum(axis='observation'): the sum of every row
RowSums(m) ==
    [r \in 1 .. m.size |-> SumSeq([c \in 1 .. m.size |-> m.data[<<r - 1, c - 1>>]])]

\* model_matrix.sum()
MatrixSum(m) == SumSeq(RowSums(m))

\* has_zero_sum
HasZeroSum(m) == \E r \in 1 .. m.size : RowSums(m)[r] = 0

\* The skip test taken from the first half of the classes on
SkipClassFromHalf(m, c, num_classes) == (c + 1) >= (num_classes \div 2) /\ HasZeroSum(m)

\* The test of class class_idx is skipped: it is past the first half of the
\* classes and some sample has no distance in it.
SkipClass(m, c, num_classes) == (c + 1) > (num_classes \div 2) /\ HasZeroSum(m)

\* r < 0 for a float r (false for nan)
Negative(r) == ~r.nan /\ r.s < 0

\* The p-value without the observed statistic counted among the permuted
SignedPValueOfPermutedOnly(stat, stats, count, n) ==
    IF Negative(stat)
    THEN Fraction(Len(SelectSeq(stats, LAMBDA ps : Geq(stat, ps))), n + 1)
    ELSE Fraction(count, n + 1)

\* The p-value of mantel() kept whatever the sign of the statistic
SignedPValueUpperTail(stat, stats, count, n) == Fraction(count + 1, n + 1)

\* The one-tailed p-value in the direction of the sign of orig_stat:
\* runAnalysis keeps the p-value of mantel() unless the statistic is negative.
SignedPValue(stat, stats, count, n) ==
    IF Negative(stat)
    THEN LET perm_sum == Len(SelectSeq(stats, LAMBDA ps : Geq(stat, ps))) + 1
         IN  Fraction(perm_sum, n + 1)
    ELSE Fraction(count + 1, n + 1)

\* min(p * num_tests, 1)
Bonferroni(p, num_tests) ==
    IF p.num * num_tests >= p.den THEN Fraction(1, 1)
    ELSE Fraction(p.num * num_tests, p.den)

\* num_tests: the number of p-values that are not None
NumTests(p_vals) == Len(SelectSeq(p_vals, LAMBDA p_val : p_val # None))

\* corrected_p_vals: the correction is applied to the first num_tests entries
\* of the list, whatever they are, and None fills the rest; multiplying None
\* raises TypeError.
CorrectedPVals(p_vals, num_classes) ==
    LET num_tests == NumTests(p_vals) IN
    IF \E k \in 1 .. num_tests : p_vals[k] = None
    THEN [error |-> "TypeError", vals |-> <<>>]
    ELSE [error |-> "none",
          vals |-> [k \in 1 .. num_classes |->
                      IF k <= num_tests
                      THEN Some(Bonferroni(p_vals[k][1], num_tests))
                      ELSE None]]

\* p_val <= 0.05 in Python 2, where None is smaller than every number
AtMostFiveHundredths(p_val) ==
    IF p_val = None THEN TRUE ELSE p_val[1].num * 20 <= p_val[1].den

\* The positions of the classes drawn as significant, in order.
SignifPositions(corrected) ==
    SelectSeq([k \in 1 .. Len(corrected) |-> k],
              LAMBDA idx : AtMostFiveHundredths(corrected[idx]))

\* The dictionary runAnalysis returns; the plot is kept as the two lists
\* it draws filled.
CorrelogramResults(indices, dists, r_vals, p_vals, corrected) ==
    [method_name |-> "Mantel Correlogram",
     class_index |-> indices,
     num_dist |-> dists,
     mantel_r |-> r_vals,
     mantel_p |-> p_vals,
     mantel_p_corr |-> corrected,
     correlogram_plot |->
        [signif_classes |-> [k \in 1 .. Len(SignifPositions(corrected)) |->
                                indices[SignifPositions(corrected)[k]]],
         signif_stats |-> [k \in 1 .. Len(SignifPositions(corrected)) |->
                                r_vals[SignifPositions(corrected)[k]]]]]

-----------------------------------------------------------------------------
(* Specification SpecMC: a caller constructs a MantelCorrelogram and runs  *)
(* its analysis.  runAnalysis is a loop over the distance classes; the     *)
(* Mantel test of a class is a loop that draws one random permutation per  *)
(* iteration.                                                              *)

\* The matrices the correlogram is run on.
McPatterns == {"asc", "const", "gap", "far"}

McDMs ==
    UNION {{MakeDM(n, AscIds(n), pat) : pat \in McPatterns} : n \in 1 .. MaxRunSize}

\* locals of runAnalysis, from the object's attributes
eco_dm == getDistanceMatrices(distmats)[1]

geo_dm == getDistanceMatrices(distmats)[2]

dm_size == getSize(eco_dm)

num_classes == SturgeClasses((dm_size * (dm_size - 1)) \div 2)

InitMC ==
    /\ DmIdle
    /\ CsIdle
    /\ McIdle
    /\ CatIdle
    /\ FnIdle
    /\ fp_errors \in {"warn", "raise"}
    /\ self_dm1 = NoDM
    /\ self_dm2 = NoDM
    /\ num_iterations = 0
    /\ orig_stat = NoStat
    /\ better = 0
    /\ perm_stats = <<>>
    /\ iter = 0
    /\ result = NoResult

NewMantelCorrelogramMc == NewMantelCorrelogramOf(McDMs)

\* mc.runAnalysis(), up to the loop over the classes.  For a single sample
\* there is no distance and log(0, 2) raises ValueError.
McRunStart ==
    /\ pc = "ready"
    /\ obj = "MantelCorrelogram"
    /\ call' = [op |-> "MantelCorrelogram.runAnalysis",
                matrices |-> getDistanceMatrices(distmats), num_perms |-> num_perms]
    /\ IF (dm_size * (dm_size - 1)) \div 2 = 0
       THEN /\ error' = "ValueError"
            /\ pc' = "returned"
            /\ UNCHANGED mcVars
       ELSE /\ error' = "none"
            /\ pc' = "MantelCorrelogram.runAnalysis"
            /\ class_idx' = 0
            /\ class_index' = <<None>>
            /\ num_dist' = <<None>>
            /\ mantel_r' = <<None>>
            /\ mantel_p' = <<None>>
    /\ UNCHANGED <<obj, distmats, num_perms, dmVars, random_fn, fnVars, catVars, ptVars>>

\* The body of the loop over the classes, up to the call of self.mantel or,
\* for a class that is empty or skipped, to its end.
McRunClass ==
    /\ pc = "MantelCorrelogram.runAnalysis"
    /\ class_idx < num_classes
    /\ LET break_points == BreakPoints(Flatten(geo_dm, TRUE), num_classes)
           model_matrix == ModelMatrix(geo_dm, class_idx)
           num_distances == MatrixSum(model_matrix)
       IN  /\ class_index' = Append(class_index,
                    Some(ClassIndices(break_points, num_classes)[class_idx + 1]))
           /\ num_dist' = Append(num_dist, Some(num_distances))
           /\ IF num_distances = 0 \/ SkipClass(model_matrix, class_idx, num_classes)
              THEN /\ mantel_r' = Append(mantel_r, None)
                   /\ mantel_p' = Append(mantel_p, None)
                   /\ class_idx' = class_idx + 1
                   /\ UNCHANGED <<pc, orig_stat, better, perm_stats, iter>>
              ELSE /\ pc' = "MantelCorrelogram.runAnalysis.mantel"
                   /\ orig_stat' = McOrigStat(model_matrix, eco_dm, fp_errors)
                   /\ better' = 0
                   /\ perm_stats' = <<>>
                   /\ iter' = 0
                   /\ UNCHANGED <<mantel_r, mantel_p, class_idx>>
    /\ UNCHANGED <<call, error, obj, distmats, num_perms, dmVars, random_fn, fnVars, catVars,
                   fp_errors, self_dm1, self_dm2, num_iterations, result>>

\* One iteration of the loop of self.mantel, called from runAnalysis
McRunMantelIter ==
    /\ pc = "MantelCorrelogram.runAnalysis.mantel"
    /\ iter < num_perms
    /\ LET model_matrix == ModelMatrix(geo_dm, class_idx) IN
       \E p \in RandomPermutations(dm_size) :
         LET r == McPermStat(model_matrix, eco_dm, p, fp_errors) IN
         /\ perm_stats' = Append(perm_stats, r)
         /\ better' = IF Geq(r, orig_stat) THEN better + 1 ELSE better
         /\ distmats' = [distmats EXCEPT
                            ![1].data = Permute2dArgument(eco_dm.data, dm_size, p)]
    /\ iter' = iter + 1
    /\ UNCHANGED <<pc, call, error, obj, num_perms, dmVars, random_fn, fnVars, catVars, mcVars,
                   fp_errors, self_dm1, self_dm2, num_iterations, orig_stat, result>>

\* self.mantel returns to runAnalysis, which finishes the body of its loop
McRunMantelReturn ==
    /\ pc = "MantelCorrelogram.runAnalysis.mantel"
    /\ iter >= num_perms
    /\ mantel_r' = Append(mantel_r, Some(Neg(orig_stat)))
    /\ mantel_p' = Append(mantel_p,
                          Some(SignedPValue(orig_stat, perm_stats, better, num_perms)))
    /\ class_idx' = class_idx + 1
    /\ pc' = "MantelCorrelogram.runAnalysis"
    /\ UNCHANGED <<call, error, obj, distmats, num_perms, dmVars, random_fn, fnVars, catVars,
                   class_index, num_dist, ptVars>>

\* runAnalysis after the loop: the correction of the p-values, the plot and
\* the returned dictionary
McRunReturn ==
    /\ pc = "MantelCorrelogram.runAnalysis"
    /\ class_idx >= num_classes
    /\ LET corrected == CorrectedPVals(Tail(mantel_p), num_classes) IN
       /\ error' = corrected.error
       /\ result' = IF corrected.error # "none" THEN result
                    ELSE CorrelogramResults(Tail(class_index), Tail(num_dist),
                                            Tail(mantel_r), Tail(mantel_p),
                                            corrected.vals)
    /\ pc' = "returned"
    /\ UNCHANGED <<call, obj, distmats, num_perms, dmVars, random_fn, fnVars, catVars, mcVars,
                   fp_errors, self_dm1, self_dm2, num_iterations, orig_stat,
                   better, perm_stats, iter>>

NextMC ==
    \/ NewMantel
    \/ MantelRunStart
    \/ MantelRunIter
    \/ MantelRunReturn
    \/ NewMantelCorrelogramMc
    \/ McSetNumPermutations
    \/ McRunStart
    \/ McRunClass
    \/ McRunMantelIter
    \/ McRunMantelReturn
    \/ McRunReturn
    \/ Resume

SpecMC == InitMC /\ [][NextMC]_vars

-----------------------------------------------------------------------------
(* Properties of the correlogram (specification SpecMC).                   *)

\* runAnalysis has gone through all its classes and has returned or raised.
RunFinished ==
    /\ pc = "returned"
    /\ call.op = "MantelCorrelogram.runAnalysis"
    /\ class_idx >= 1

\* C12: in the result of a correlogram the corrected p-value of every
\* position with a raw p-value is min(raw_p * m, 1), m being the number of raw
\* p-values that are not None, and it is None at every position whose raw
\* p-value is None, wherever in the list the None entries are.
C12_BonferroniElementwise ==
    RunFinished =>
        /\ error = "none"
        /\ \A k \in 1 .. num_classes :
             LET raw_p == Tail(mantel_p)[k] IN
             result.mantel_p_corr[k] =
                 IF raw_p = None THEN None
                 ELSE Some(Bonferroni(raw_p[1], NumTests(Tail(mantel_p))))

RECURSIVE Pow2(_)
Pow2(e) == IF e = 0 THEN 1 ELSE 2 * Pow2(e - 1)

\* k = ceil(1 + log2(d)) for d >= 1: 2^(k-1) is the first power of two >= d.
IsSturge(k, d) ==
    /\ k >= 1
    /\ Pow2(k - 1) >= d
    /\ k >= 2 => Pow2(k - 2) < d

\* The entries of a list without None are strictly increasing.
StrictlyIncreasing(xs) == \A a, b \in 1 .. Len(xs) : a < b => xs[a][1] < xs[b][1]

\* C13: for n samples runAnalysis goes through k = ceil(1 + log2(n(n-1)/2))
\* distance classes; each of the lists class_index, num_dist, mantel_r,
\* mantel_p and mantel_p_corr of a result has exactly k entries; and the class
\* indices are strictly increasing whenever the largest distance of the
\* second matrix exceeds the smallest.
C13_SturgeClassCount ==
    RunFinished =>
        /\ IsSturge(class_idx, (dm_size * (dm_size - 1)) \div 2)
        /\ Len(Tail(class_index)) = class_idx
        /\ Len(Tail(num_dist)) = class_idx
        /\ Len(Tail(mantel_r)) = class_idx
        /\ Len(Tail(mantel_p)) = class_idx
        /\ MaxOf(Flatten(geo_dm, TRUE)) > MinOf(Flatten(geo_dm, TRUE)) =>
              StrictlyIncreasing(Tail(class_index))
        /\ error = "none" =>
              /\ \A key \in {"class_index", "num_dist", "mantel_r", "mantel_p",
                             "mantel_p_corr"} : Len(result[key]) = class_idx
              /\ result.class_index = Tail(class_index)

\* A correlogram of three samples with different distances has returned its
\* three classes.
C13_Witness ==
    /\ RunFinished
    /\ error = "none"
    /\ dm_size = 3
    /\ MaxOf(Flatten(geo_dm, TRUE)) > MinOf(Flatten(geo_dm, TRUE))
    /\ Len(result.class_index) = 3
    /\ Len(result.mantel_p_corr) = 3

\* The classes of a result whose corrected p-value is computed and at most
\* 0.05, the threshold when the caller gives none.
SignificantClasses(res) ==
    {k \in 1 .. Len(res.mantel_p_corr) :
        /\ res.mantel_p_corr[k] # None
        /\ res.mantel_p_corr[k][1].num * 20 <= res.mantel_p_corr[k][1].den}

\* C14: the classes marked significant in the output of a correlogram are
\* exactly those with a corrected p-value that is not None and at most alpha
\* (0.05 by default); a skipped class, whose corrected p-value is None, is
\* never marked.
C14_SignificantClasses ==
    (RunFinished /\ error = "none") =>
        LET marked == result.correlogram_plot.signif_classes IN
        /\ Len(marked) = Cardinality(SignificantClasses(result))
        /\ \A k \in 1 .. Len(result.mantel_p_corr) :
             result.mantel_p_corr[k] = None =>
                 \A j \in 1 .. Len(marked) : marked[j] # result.class_index[k]

\* The off-diagonal cells of the second matrix that hold its smallest distance.
MinimumCells ==
    {cell \in Cells(dm_size, dm_size) :
        /\ cell[1] # cell[2]
        /\ geo_dm.data[cell] = MinOf(Flatten(geo_dm, TRUE))}

\* C20: in a correlogram every off-diagonal entry of the second matrix equal
\* to its smallest lower-triangular distance is put in the first distance
\* class, the first break point being strictly below that distance; none is
\* left in class 0, where the diagonal goes.
C20_MinimumInFirstClass ==
    (call.op = "MantelCorrelogram.runAnalysis" /\ class_idx >= 1) =>
        /\ \A cell \in MinimumCells :
              DistClassMatrix(geo_dm)[cell[2] * dm_size + cell[1] + 1] = 1
        /\ num_dist[2][1] >= Cardinality(MinimumCells)

-----------------------------------------------------------------------------
(* stats.py: DistanceMatrixStats and CategoryStats, called with values of  *)
(* any type.                                                               *)

PyNone == PyValue("NoneType")

PyInt == PyValue("int")

PyDict == PyValue("dict")

PyStr(text) == [PyValue("str") EXCEPT !.text = text]

PyDistanceMatrix(ids) == [PyValue("DistanceMatrix") EXCEPT !.ids = ids]

PyMetadataMap(ids, cats) == [PyValue("MetadataMap") EXCEPT !.ids = ids, !.cats = cats]

PyCategoryStats == PyValue("CategoryStats")

PyListOf(items) == [PyValue("list") EXCEPT !.items = items]

\* The values of the tests: a map of two samples with two categories, a
\* matrix of these samples and one with another sample, a category of the
\* map and one that is not in it.
OverviewMap == PyMetadataMap(<<1, 2>>, <<"Treatment", "DOB">>)

OverviewDM == PyDistanceMatrix(<<1, 2>>)

OtherDM == PyDistanceMatrix(<<1, 3>>)

ListElements == {OverviewDM, OtherDM, PyInt, PyStr("Treatment"), PyStr("foo")}

PyLists == {PyListOf(items) : items \in UNION {[1 .. k -> ListElements] : k \in 0 .. MaxItems}}

Scalars == {PyNone, PyInt, PyStr("foo"), PyDict, OverviewDM, OverviewMap, PyCategoryStats}

\* Lists of strings
CategoryLists == {v \in PyLists : \A k \in 1 .. Len(v.items) : v.items[k].type = "str"}

\* Lists of distance matrices
MatrixLists == {v \in PyLists : \A k \in 1 .. Len(v.items) : v.items[k].type = "DistanceMatrix"}

\* isinstance(value, self.__class__) inside a method of a CategoryStats object
IsInstanceOfSelfClass(value) == value.type = "CategoryStats"

\* The elements a for loop over value visits, or TypeError when value is not
\* iterable.  A string yields its characters, themselves strings: the model
\* keeps one string for them (no string of the model is empty).
Iterate(value) ==
    CASE value.type \in {"list", "dict"} -> [error |-> "none", els |-> value.items]
      [] value.type = "str" -> [error |-> "none", els |-> <<value>>]
      [] OTHER -> [error |-> "TypeError", els |-> <<>>]

\* CategoryStats.__init__(mdmap, dm, cats)
CategoryStatsInit(mdmap, distmat, cats) ==
    LET set_dms == DMS_setDistanceMatrices(<<>>, PyListOf(<<distmat>>)) IN
    [error |-> set_dms.error, distmats |-> set_dms.distmats,
     metadata_map |-> mdmap, categories |-> cats]

\* CategoryStats.setMetadataMap
Cat_setMetadataMap(self_metadata_map, new_map) ==
    IF ~IsInstanceOfSelfClass(new_map)
    THEN [error |-> "TypeError", metadata_map |-> self_metadata_map]
    ELSE [error |-> "none", metadata_map |-> new_map]

\* CategoryStats.getMetadataMap
getMetadataMap(self_metadata_map) == self_metadata_map

\* CategoryStats.setDistanceMatrix
Cat_setDistanceMatrix(self_distmats, new_distmat) ==
    IF ~IsInstanceOfSelfClass(new_distmat)
    THEN [error |-> "TypeError", distmats |-> self_distmats]
    ELSE DMS_setDistanceMatrices(self_distmats, PyListOf(<<new_distmat>>))

\* CategoryStats.getDistanceMatrix
getDistanceMatrix(self_distmats) == getDistanceMatrices(self_distmats)[1]

\* CategoryStats.setCategories
Cat_setCategories(self_categories, new_categories) ==
    LET loop == Iterate(new_categories) IN
    IF loop.error # "none"
    THEN [error |-> loop.error, categories |-> self_categories]
    ELSE IF \E k \in 1 .. Len(loop.els) : ~IsInstanceOfSelfClass(loop.els[k])
    THEN [error |-> "TypeError", categories |-> self_categories]
    ELSE [error |-> "none", categories |-> new_categories]

\* CategoryStats.getCategories
getCategories(self_categories) == self_categories

-----------------------------------------------------------------------------
(* Specification SpecCat: a caller constructs a DistanceMatrixStats or a   *)
(* CategoryStats from values of any type and calls its setters.            *)

InitCat == DmIdle /\ CsIdle /\ PtIdle /\ McIdle /\ CatIdle /\ FnIdle

\* The arguments of a call, as call.matrices keeps them
Args(op, args) == [op |-> op, matrices |-> args, num_perms |-> 0]

\* DistanceMatrixStats(distmats)
NewDistanceMatrixStats ==
    /\ pc = "ready"
    /\ obj = "none"
    /\ \E value \in Scalars \cup PyLists :
         LET res == DMS_setDistanceMatrices(<<>>, value) IN
         /\ call' = Args("DistanceMatrixStats", <<value>>)
         /\ error' = res.error
         /\ obj' = IF res.error = "none" THEN "DistanceMatrixStats" ELSE "none"
         /\ distmats' = res.distmats
    /\ pc' = "returned"
    /\ UNCHANGED <<num_perms, dmVars, random_fn, fnVars, ptVars, mcVars, catVars>>

\* stats.setDistanceMatrices(matrices), on a DistanceMatrixStats
DmsSetDistanceMatrices ==
    /\ pc = "ready"
    /\ obj = "DistanceMatrixStats"
    /\ \E value \in Scalars \cup PyLists :
         LET res == DMS_setDistanceMatrices(distmats, value) IN
         /\ call' = Args("DistanceMatrixStats.setDistanceMatrices", <<value>>)
         /\ error' = res.error
         /\ distmats' = res.distmats
    /\ pc' = "returned"
    /\ UNCHANGED <<obj, num_perms, dmVars, random_fn, fnVars, ptVars, mcVars, catVars>>

\* CategoryStats(mdmap, dm, cats), called with values of the documented types
NewCategoryStats ==
    /\ pc = "ready"
    /\ obj = "none"
    /\ \E mdmap \in {OverviewMap}, distmat \in {OverviewDM, OtherDM},
          cats \in CategoryLists :
         LET res == CategoryStatsInit(mdmap, distmat, cats) IN
         /\ call' = Args("CategoryStats", <<mdmap, distmat, cats>>)
         /\ error' = res.error
         /\ obj' = IF res.error = "none" THEN "CategoryStats" ELSE "none"
         /\ distmats' = res.distmats
         /\ metadata_map' = res.metadata_map
         /\ categories' = res.categories
    /\ pc' = "returned"
    /\ UNCHANGED <<num_perms, dmVars, random_fn, fnVars, ptVars, mcVars>>

\* cs.setMetadataMap(new_map)
CatSetMetadataMap ==
    /\ pc = "ready"
    /\ obj = "CategoryStats"
    /\ \E value \in Scalars \cup CategoryLists :
         LET res == Cat_setMetadataMap(metadata_map, value) IN
         /\ call' = Args("CategoryStats.setMetadataMap", <<value>>)
         /\ error' = res.error
         /\ metadata_map' = res.metadata_map
    /\ pc' = "returned"
    /\ UNCHANGED <<obj, distmats, num_perms, categories, dmVars, random_fn, fnVars, ptVars, mcVars>>

\* cs.setDistanceMatrix(new_distmat)
CatSetDistanceMatrix ==
    /\ pc = "ready"
    /\ obj = "CategoryStats"
    /\ \E value \in Scalars \cup CategoryLists :
         LET res == Cat_setDistanceMatrix(distmats, value) IN
         /\ call' = Args("CategoryStats.setDistanceMatrix", <<value>>)
         /\ error' = res.error
         /\ distmats' = res.distmats
    /\ pc' = "returned"
    /\ UNCHANGED <<obj, num_perms, dmVars, random_fn, fnVars, ptVars, mcVars, catVars>>

\* cs.setDistanceMatrices(matrices), inherited from DistanceMatrixStats,
\* called with a list of distance matrices
CatSetDistanceMatrices ==
    /\ pc = "ready"
    /\ obj = "CategoryStats"
    /\ \E value \in MatrixLists :
         LET res == DMS_setDistanceMatrices(distmats, value) IN
         /\ call' = Args("CategoryStats.setDistanceMatrices", <<value>>)
         /\ error' = res.error
         /\ distmats' = res.distmats
    /\ pc' = "returned"
    /\ UNCHANGED <<obj, num_perms, dmVars, random_fn, fnVars, ptVars, mcVars, catVars>>

\* cs.setCategories(new_categories)
CatSetCategories ==
    /\ pc = "ready"
    /\ obj = "CategoryStats"
    /\ \E value \in Scalars \cup CategoryLists :
         LET res == Cat_setCategories(categories, value) IN
         /\ call' = Args("CategoryStats.setCategories", <<value>>)
         /\ error' = res.error
         /\ categories' = res.categories
    /\ pc' = "returned"
    /\ UNCHANGED <<obj, distmats, num_perms, metadata_map, dmVars, random_fn, fnVars, ptVars, mcVars>>

\* cs.runAnalysis(): CategoryStats inherits the method of GradientStats,
\* which raises NotImplementedError
CatRunAnalysis ==
    /\ pc = "ready"
    /\ obj = "CategoryStats"
    /\ call' = Args("CategoryStats.runAnalysis", <<>>)
    /\ error' = "NotImplementedError"
    /\ pc' = "returned"
    /\ UNCHANGED <<obj, distmats, num_perms, dmVars, random_fn, fnVars, ptVars, mcVars, catVars>>

NextCat ==
    \/ NewDistanceMatrixStats
    \/ DmsSetDistanceMatrices
    \/ NewCategoryStats
    \/ CatSetMetadataMap
    \/ CatSetDistanceMatrix
    \/ CatSetDistanceMatrices
    \/ CatSetCategories
    \/ CatRunAnalysis
    \/ Resume

SpecCat == InitCat /\ [][NextCat]_vars

-----------------------------------------------------------------------------
(* Properties of DistanceMatrixStats and CategoryStats (specification      *)
(* SpecCat).                                                               *)

\* A list all of whose elements have the given type.
IsListOf(value, type) ==
    /\ value.type = "list"
    /\ \A k \in 1 .. Len(value.items) : value.items[k].type = type

\* C15: each setter of CategoryStats accepts a value of its documented type,
\* which the matching getter then returns (a MetadataMap for setMetadataMap,
\* a DistanceMatrix for setDistanceMatrix, a list of strings for
\* setCategories), and rejects a value of any other type with TypeError.
C15_CategoryStatsSetters ==
    pc = "returned" =>
        /\ call.op = "CategoryStats.setMetadataMap" =>
              IF call.matrices[1].type = "MetadataMap"
              THEN error = "none" /\ getMetadataMap(metadata_map) = call.matrices[1]
              ELSE error = "TypeError"
        /\ call.op = "CategoryStats.setDistanceMatrix" =>
              IF call.matrices[1].type = "DistanceMatrix"
              THEN error = "none" /\ getDistanceMatrix(distmats) = call.matrices[1]
              ELSE error = "TypeError"
        /\ call.op = "CategoryStats.setCategories" =>
              IF IsListOf(call.matrices[1], "str")
              THEN error = "none" /\ getCategories(categories) = call.matrices[1]
              ELSE error = "TypeError"

\* Every category is in the metadata map and every sample of every distance
\* matrix is a sample of the map.
Compatible(mdmap, matrices, cats) ==
    /\ \A k \in 1 .. Len(cats.items) :
          \E c \in 1 .. Len(mdmap.cats) : mdmap.cats[c] = cats.items[k].text
    /\ \A m \in 1 .. Len(matrices) : \A k \in 1 .. Len(matrices[m].ids) :
          \E j \in 1 .. Len(mdmap.ids) : mdmap.ids[j] = matrices[m].ids[k]

\* C16: a CategoryStats whose category is not in the metadata map, or whose
\* distance matrix has a sample that is not in the map, fails with an error:
\* its construction does, and so does its analysis after its matrices have been
\* replaced by incompatible ones.
C16_IncompatibleDataFails ==
    pc = "returned" =>
        /\ (call.op = "CategoryStats"
              /\ ~Compatible(call.matrices[1], <<call.matrices[2]>>, call.matrices[3]))
              => error # "none"
        /\ (call.op = "CategoryStats.runAnalysis"
              /\ ~Compatible(metadata_map, distmats, categories))
              => error # "none"

\* C17: constructing a DistanceMatrixStats, or setting its distance matrices,
\* raises TypeError for a value that is not a list and for a list with an
\* element that is not a DistanceMatrix; a list of DistanceMatrix objects, the
\* empty list included, is accepted and returned by the getter.
C17_DistanceMatrixStatsTypes ==
    (pc = "returned" /\ call.op \in {"DistanceMatrixStats",
                                     "DistanceMatrixStats.setDistanceMatrices"}) =>
        IF IsListOf(call.matrices[1], "DistanceMatrix")
        THEN error = "none" /\ getDistanceMatrices(distmats) = call.matrices[1].items
        ELSE error = "TypeError"

-----------------------------------------------------------------------------
(* Specification SpecRF: the permutation tests of SpecPT, run by a caller  *)
(* who may first put a permutation function of its own on the object, as   *)
(* the tests do with obj.RandomFunction = NonRandomShuffler().permutation. *)

\* NonRandomShuffler.permutation on its call number num_calls (from 0), for
\* the indices 0 .. n - 1: they are rolled by num_calls places.
Shuffler(n, calls) == [k \in 0 .. n - 1 |-> (k + n * calls - calls) % n]

\* obj.RandomFunction = NonRandomShuffler().permutation.  The classes define
\* no such attribute, so the assignment creates it on the instance; nothing
\* reads it.
SetRandomFunction ==
    /\ pc = "ready"
    /\ obj \in {"Mantel", "MantelCorrelogram"}
    /\ random_fn = NoFunction
    /\ random_fn' = [fn |-> "NonRandomShuffler.permutation", num_calls |-> 0]
    /\ UNCHANGED <<dmVars, csVars, ptVars, mcVars, metadata_map, categories, fnVars>>

NextRF ==
    \/ NewMantel
    \/ MantelRunStart
    \/ MantelRunIter
    \/ MantelRunReturn
    \/ NewMantelCorrelogramRun
    \/ SetRandomFunction
    \/ McMantelStart
    \/ McMantelIter
    \/ McMantelReturn
    \/ Resume

SpecRF == InitPT /\ [][NextRF]_vars

\* C18: a permutation test is deterministic given its permutation source,
\* which is a setting of the object that the caller can replace: run with the
\* caller's permutation function, the test computes its permuted statistics
\* from the permutations that function returns, so that two such runs on the
\* same matrices with the same count give the same statistics and p-value.
C18_PermutationSource ==
    (pc = "returned" /\ random_fn.fn = "NonRandomShuffler.permutation") =>
        /\ call.op = "MantelCorrelogram.mantel" =>
              /\ random_fn.num_calls = call.num_perms
              /\ perm_stats =
                    [k \in 1 .. call.num_perms |->
                        McPermStat(call.matrices[1], call.matrices[2],
                                   Shuffler(call.matrices[2].size, k - 1), fp_errors)]
        /\ (call.op = "Mantel.runAnalysis" /\ call.num_perms >= 0) =>
              /\ random_fn.num_calls = call.num_perms
              /\ better = Cardinality(
                    {k \in 1 .. call.num_perms :
                        Geq(MantelPermStat(self_dm1, self_dm2,
                                           Shuffler(self_dm1.size, k - 1), fp_errors),
                            orig_stat)})

-----------------------------------------------------------------------------
(* The attributes of the object over a run (specification SpecMC).         *)

\* C19: runAnalysis, of a MantelCorrelogram or of a Mantel object, leaves the
\* stored distance matrices (their cells and their sample ids) and the stored
\* permutation count as they were when it was called, at every step of the
\* run and after it.
C19_RunLeavesAttributes ==
    /\ call.op = "MantelCorrelogram.runAnalysis" =>
          /\ getDistanceMatrices(distmats) = call.matrices
          /\ num_perms = call.num_perms
    /\ call.op = "Mantel.runAnalysis" =>
          /\ <<self_dm1, self_dm2>> = call.matrices
          /\ num_iterations = call.num_perms

\* A correlogram run on three samples that has permuted the ecological
\* matrix at least once and has returned its result.
C19_Witness ==
    /\ pc = "returned"
    /\ call.op = "MantelCorrelogram.runAnalysis"
    /\ error = "none"
    /\ dm_size = 3
    /\ num_perms >= 1
    /\ Len(perm_stats) = num_perms
    /\ getDistanceMatrices(distmats) = call.matrices

-----------------------------------------------------------------------------
(* The classes of a correlogram run, one by one (specification SpecMC).    *)

\* runAnalysis is between two classes of its loop, or has returned or raised
\* after it: the lists hold the entries of the classes gone through.
InRun ==
    /\ call.op = "MantelCorrelogram.runAnalysis"
    /\ pc \in {"MantelCorrelogram.runAnalysis", "returned"}
    /\ Len(mantel_r) >= 1

\* The model matrix of the class at 1-based position pos has no pair at all.
NoPairs(pos) ==
    LET model_matrix == ModelMatrix(geo_dm, pos - 1) IN
    \A cell \in Cells(dm_size, dm_size) : model_matrix.data[cell] = 0

\* Some sample has no distance in the class at 1-based position pos.
SomeEmptyRow(pos) ==
    LET model_matrix == ModelMatrix(geo_dm, pos - 1) IN
    \E r \in 0 .. dm_size - 1 :
        \A c \in 0 .. dm_size - 1 : model_matrix.data[<<r, c>>] = 0

\* C21: a class has r = None and p = None exactly when its model matrix has
\* no pairs, or when its 1-based position exceeds floor(k / 2) and some
\* sample row of its model matrix sums to zero; every other class has the
\* r and p of a Mantel test of its model matrix against the response matrix.
C21_SkippedClasses ==
    InRun =>
        \A pos \in 1 .. Len(mantel_r) - 1 :
            LET skipped == NoPairs(pos) \/
                           (pos > num_classes \div 2 /\ SomeEmptyRow(pos))
            IN  /\ (mantel_r[pos + 1] = None) <=> skipped
                /\ (mantel_p[pos + 1] = None) <=> skipped
                /\ ~skipped =>
                      /\ mantel_r[pos + 1] =
                            Some(Neg(McOrigStat(ModelMatrix(geo_dm, pos - 1),
                                                eco_dm, fp_errors)))
                      /\ ~mantel_p[pos + 1][1].na

\* A finished run with a class that has pairs and was skipped, and a class
\* that was tested.
C21_Witness ==
    /\ InRun
    /\ pc = "returned"
    /\ \E pos \in 1 .. Len(mantel_r) - 1 :
          ~NoPairs(pos) /\ mantel_r[pos + 1] = None /\ mantel_p[pos + 1] = None
    /\ \E pos \in 1 .. Len(mantel_r) - 1 :
          mantel_r[pos + 1] # None /\ mantel_p[pos + 1] # None

\* The class that runAnalysis has just gone through was tested: its entries
\* are the last of the lists, and perm_stats holds the statistics of its
\* permutations.
LastClassTested ==
    /\ InRun
    /\ Len(mantel_r) >= 2
    /\ mantel_r[Len(mantel_r)] # None

\* The correlation s of the model matrix of the last class with the response
LastClassStat ==
    McOrigStat(ModelMatrix(geo_dm, Len(mantel_r) - 2), eco_dm, fp_errors)

\* C22: for a class that is not skipped, the reported r is -s, s being the
\* correlation of the class's model matrix with the response matrix, and the
\* raw p-value is (count of permuted statistics >= s, plus 1) / (n + 1) when
\* s >= 0 and (count of permuted statistics <= s, plus 1) / (n + 1) when
\* s < 0, over the statistics of the n permutations of the test.
C22_SignedMantelR ==
    LastClassTested =>
        LET stat == LastClassStat
            reported_p == mantel_p[Len(mantel_p)][1]
            at_least == {k \in 1 .. Len(perm_stats) : Geq(perm_stats[k], stat)}
            at_most == {k \in 1 .. Len(perm_stats) : Geq(stat, perm_stats[k])}
        IN  /\ mantel_r[Len(mantel_r)] = Some(Neg(stat))
            /\ Len(perm_stats) = num_perms
            /\ (~stat.nan /\ stat.s >= 0) =>
                  reported_p = Fraction(Cardinality(at_least) + 1, num_perms + 1)
            /\ (~stat.nan /\ stat.s < 0) =>
                  reported_p = Fraction(Cardinality(at_most) + 1, num_perms + 1)

\* A tested class with a negative correlation, two permutations, one of them
\* with a statistic at most s and one with a larger statistic.
C22_Witness ==
    /\ LastClassTested
    /\ ~LastClassStat.nan
    /\ LastClassStat.s < 0
    /\ num_perms = 2
    /\ \E k \in 1 .. Len(perm_stats) : Geq(LastClassStat, perm_stats[k])
    /\ \E k \in 1 .. Len(perm_stats) : ~Geq(LastClassStat, perm_stats[k])
    /\ mantel_p[Len(mantel_p)] = Some(Fraction(2, 3))

-----------------------------------------------------------------------------
(* One permutation of a test (specification SpecMC).                       *)

\* The matrix m with cell (i, j) taken from cell (p[i], p[j]) of m.
PermutedBy(m, p) ==
    [m EXCEPT !.data = [c \in Cells(m.size, m.size) |-> m.data[<<p[c[1]], p[c[2]]>>]]]

\* The matrix has a zero diagonal and is symmetric.
SymmetricHollow(m) ==
    \A c \in Cells(m.size, m.size) :
        /\ c[1] = c[2] => m.data[c] = 0
        /\ m.data[c] = m.data[<<c[2], c[1]>>]

\* One iteration of the loop of Mantel.runAnalysis: the statistic compared
\* with the observed one is that of the first matrix as it is and of the
\* second matrix permuted by some p, and both stored matrices stay.
MantelIteration ==
    LET m1_flat == Ravel(self_dm1.data, self_dm1.size)
        counted == better' - better
    IN  /\ self_dm1' = self_dm1
        /\ self_dm2' = self_dm2
        /\ \E p \in RandomPermutations(self_dm1.size) :
              LET p2 == PermutedBy(self_dm2, p) IN
              /\ counted = IF Geq(Abs(Pearson(m1_flat, Ravel(p2.data, p2.size),
                                              fp_errors)),
                                  orig_stat)
                           THEN 1 ELSE 0
              /\ SymmetricHollow(p2)

\* One iteration of the loop of MantelCorrelogram.mantel, called for the
\* current class: the statistic appended is that of the model matrix as it
\* is and of the response matrix permuted by some p.
McIteration ==
    LET m1_flat == Flatten(ModelMatrix(geo_dm, class_idx), TRUE)
        r == perm_stats'[Len(perm_stats')]
    IN  /\ distmats' = distmats
        /\ Len(perm_stats') = Len(perm_stats) + 1
        /\ SubSeq(perm_stats', 1, Len(perm_stats)) = perm_stats
        /\ \E p \in RandomPermutations(dm_size) :
              LET p2 == PermutedBy(eco_dm, p) IN
              /\ r = Pearson(m1_flat, Flatten(p2, TRUE), fp_errors)
              /\ SymmetricHollow(p2)

\* C23: each permutation of a Mantel-style test reorders the second matrix
\* only, by one permutation p of the samples applied to its rows and to its
\* columns (cell (i, j) of the permuted matrix is cell (p[i], p[j]) of the
\* matrix), so that the permuted matrix has a zero diagonal and is
\* symmetric; the first matrix and its flattening are not permuted.
C23_PermutesSecondMatrixOnly ==
    [][/\ (pc = "Mantel.runAnalysis" /\ iter' = iter + 1) =>
             MantelIteration
       /\ (pc = "MantelCorrelogram.runAnalysis.mantel" /\ iter' = iter + 1) =>
             McIteration]_vars

\* A test on three samples whose last permutation gave a statistic other
\* than the observed one: the permutation has moved cells of the response.
C23_Witness ==
    /\ pc = "MantelCorrelogram.runAnalysis.mantel"
    /\ dm_size = 3
    /\ iter >= 1
    /\ Len(perm_stats) = iter
    /\ perm_stats[iter] # orig_stat
    /\ ~perm_stats[iter].nan

-----------------------------------------------------------------------------
(* Specification SpecPearson: pearson is called on two lists of the same   *)
(* length.                                                                 *)

\* The lists of numbers handed to pearson
NumberLists(n) == [1 .. n -> 0 .. MaxVal]

InitPearson ==
    /\ DmIdle
    /\ CsIdle
    /\ McIdle
    /\ CatIdle
    /\ FnIdle
    /\ fp_errors \in {"warn", "raise"}
    /\ self_dm1 = NoDM
    /\ self_dm2 = NoDM
    /\ num_iterations = 0
    /\ orig_stat = NoStat
    /\ better = 0
    /\ perm_stats = <<>>
    /\ iter = 0
    /\ result = NoResult

\* pearson(x_items, y_items)
PearsonCall ==
    /\ \E n \in 1 .. MaxLen :
         \E x \in NumberLists(n), y \in NumberLists(n) :
            /\ pearson_args' = <<x, y>>
            /\ pearson_r' = Pearson(x, y, fp_errors)
    /\ UNCHANGED <<dmVars, csVars, ptVars, mcVars, catVars, random_fn, held_list,
                   scriptVars, wfVars>>

NextPearson == PearsonCall

SpecPearson == InitPearson /\ [][NextPearson]_vars

\* All the elements of the list are equal (or there is only one).
NoVariance(xs) == \A a, b \in 1 .. Len(xs) : xs[a] = xs[b]

\* A number in the closed interval [-1, 1]
InUnitInterval(r) == ~r.nan /\ r.p <= r.q

\* C24: pearson(x, y) returns 0.0, without raising, whenever x or y has no
\* variance; it returns 1.0 when y equals a non-constant x; and for all
\* inputs the value returned is in the closed interval [-1, 1].
C24_PearsonDegenerate ==
    pearson_args # <<>> =>
        LET x == pearson_args[1]
            y == pearson_args[2]
        IN  /\ (NoVariance(x) \/ NoVariance(y)) => pearson_r = Zero
            /\ (x = y /\ ~NoVariance(x)) => pearson_r = One
            /\ InUnitInterval(pearson_r)

-----------------------------------------------------------------------------
(* The setters over sequences of calls (specification SpecCS).             *)

SetterCalls ==
    {"CorrelationStats.setDistanceMatrices",
     "CorrelationStats.setDistanceMatrices(tuple)",
     "MantelCorrelogram.setDistanceMatrices",
     "MantelCorrelogram.setDistanceMatrices(tuple)",
     "MantelCorrelogram.setNumPermutations"}

\* C25: a setter call that fails leaves the object unchanged: after a
\* rejected setDistanceMatrices (wrong count, size mismatch, sample id
\* mismatch, not a list) or a rejected setNumPermutations (negative count) on
\* a MantelCorrelogram or a CorrelationStats, the getters return what they
\* returned before the call, whatever calls were made before.
C25_FailedSetterLeavesObject ==
    [][(pc = "ready" /\ pc' = "returned" /\ call'.op \in SetterCalls
                     /\ error' # "none") =>
          /\ getDistanceMatrices(distmats') = getDistanceMatrices(distmats)
          /\ num_perms' = num_perms
          /\ obj' = obj]_vars

\* A MantelCorrelogram holding two matrices has refused two matrices with
\* different sample ids, and holds the two it held.
C25_Witness ==
    /\ pc = "returned"
    /\ call.op = "MantelCorrelogram.setDistanceMatrices"
    /\ error = "ValueError"
    /\ Len(call.matrices) = 2
    /\ getSize(call.matrices[1]) = getSize(call.matrices[2])
    /\ call.matrices[1].SampleIds # call.matrices[2].SampleIds
    /\ Len(getDistanceMatrices(distmats)) = 2
    /\ getDistanceMatrices(distmats) # call.matrices

-----------------------------------------------------------------------------
(* Specification SpecAlias: the caller of a MantelCorrelogram also reads   *)
(* its list of matrices and edits the list it has read.  The setter stores *)
(* the list it is given and the getter returns the stored list, not a copy *)
(* of it, so the caller's list and self._distmats are one object.          *)

InitAlias == DmIdle /\ CsIdle /\ PtIdle /\ McIdle /\ CatIdle /\ FnIdle

\* mc.getDistanceMatrices(): the caller now holds self._distmats itself.
McGetDistanceMatrices ==
    /\ pc = "ready"
    /\ obj = "MantelCorrelogram"
    /\ call' = [op |-> "MantelCorrelogram.getDistanceMatrices",
                matrices |-> getDistanceMatrices(distmats), num_perms |-> 0]
    /\ error' = "none"
    /\ held_list' = TRUE
    /\ pc' = "returned"
    /\ UNCHANGED <<obj, distmats, num_perms, dmVars, random_fn, ptVars, mcVars, catVars,
                   pearson_args, pearson_r, scriptVars, wfVars>>

\* The edits of a list: append an element, delete the last, replace one.
ListEdits(items) ==
    {Append(items, m) : m \in {e \in SetterDMs : Len(items) < MaxList}}
        \cup {SubSeq(items, 1, Len(items) - 1) : k \in {1} \cap DOMAIN items}
        \cup {[items EXCEPT ![k] = m] : k \in DOMAIN items, m \in SetterDMs}

\* The caller edits the list it holds; no method of the object is called.
CallerEditsList ==
    /\ pc = "ready"
    /\ obj = "MantelCorrelogram"
    /\ held_list
    /\ \E edited \in ListEdits(distmats) :
         /\ edited # distmats
         /\ distmats' = edited
    /\ UNCHANGED <<pc, call, error, obj, num_perms, dmVars, random_fn, fnVars, ptVars,
                   mcVars, catVars>>

NextAlias ==
    \/ NewMantelCorrelogram
    \/ McSetDistanceMatrices
    \/ McSetNumPermutations
    \/ McGetDistanceMatrices
    \/ CallerEditsList
    \/ Resume

SpecAlias == InitAlias /\ [][NextAlias]_vars

\* C26: after any sequence of operations on a MantelCorrelogram
\* (construction, successful and failed setter calls, reads through
\* getDistanceMatrices, and the caller's edits of a list that it passed to
\* the setter or got from the getter), the object holds exactly two distance
\* matrices of the same size with the same sample id sequence, and a
\* permutation count >= 0.
C26_HoldsTwoAgreeingMatrices ==
    obj = "MantelCorrelogram" =>
        /\ Len(getDistanceMatrices(distmats)) = 2
        /\ ~Disagree(getDistanceMatrices(distmats))
        /\ num_perms >= 0

-----------------------------------------------------------------------------
(* The distances counted by a correlogram (specification SpecMC).          *)

\* The numbers of a list without None, added up.
SumOfEntries(xs) == SumSeq([k \in 1 .. Len(xs) |-> xs[k][1]])

\* C27: for a symmetric second matrix with a zero diagonal and n >= 3
\* samples, runAnalysis puts every off-diagonal cell in exactly one of the k
\* distance classes and no diagonal cell in any, so that the counts num_dist
\* of a run add up to n(n-1).
C27_CountsAddUp ==
    (RunFinished /\ dm_size >= 3 /\ SymmetricHollow(geo_dm)) =>
        /\ \A cell \in Cells(dm_size, dm_size) :
              LET in_classes == {c \in 0 .. num_classes - 1 :
                                    ModelMatrix(geo_dm, c).data[cell] = 1}
              IN  Cardinality(in_classes) = IF cell[1] = cell[2] THEN 0 ELSE 1
        /\ SumOfEntries(Tail(num_dist)) = dm_size * (dm_size - 1)

-----------------------------------------------------------------------------
(* The range of the p-values of a correlogram (specification SpecMC).      *)

\* a <= b for two p-values that are numbers
PLeq(a, b) == a.num * b.den <= b.num * a.den

-----------------------------------------------------------------------------
(* Specification SpecScript: the partial_mantel branch of the comparison   *)
(* script, run on three input files.                                       *)

\* The elements of a list
Elements(xs) == {xs[k] : k \in DOMAIN xs}

\* The position of an element in a list
PositionOf(xs, e) == CHOOSE k \in DOMAIN xs : xs[k] = e

\* The sample ids of a file: the ids in ids, in ascending order
SortedIds(ids) ==
    CHOOSE xs \in [1 .. Cardinality(ids) -> ids] :
        \A a, b \in 1 .. Cardinality(ids) : a < b => xs[a] < xs[b]

\* parse_distmat(open(fp)): the matrices the input files can hold
InputFiles ==
    {MakeDM(Cardinality(ids), SortedIds(ids), "asc") :
        ids \in (SUBSET (1 .. MaxSamples)) \ {{}}}

\* A matrix as make_compatible_distance_matrices takes and returns it: the
\* pair (labels, data)
LabelsAndData(m) == [labels |-> m.SampleIds, data |-> m.data]

\* qiime.util.make_compatible_distance_matrices(dm1, dm2), without lookup (a
\* library outside this repository): both matrices are cut down to the
\* samples they share, in the order of the first.
MakeCompatibleDistanceMatrices(dm1, dm2) ==
    LET order == SelectSeq(dm1.labels, LAMBDA e : e \in Elements(dm2.labels))
        Filtered(m) ==
            [c \in Cells(Len(order), Len(order)) |->
                m.data[<<PositionOf(m.labels, order[c[1] + 1]) - 1,
                         PositionOf(m.labels, order[c[2] + 1]) - 1>>]]
    IN  <<[labels |-> order, data |-> Filtered(dm1)],
          [labels |-> order, data |-> Filtered(dm2)]>>

\* The partial_mantel branch with every filtering done on the matrices the
\* filtering before it returned
PartialMantelArgsChained(file1, file2, control) ==
    LET first == MakeCompatibleDistanceMatrices(file1, file2)
        second == MakeCompatibleDistanceMatrices(first[1], control)
        third == MakeCompatibleDistanceMatrices(first[2], second[1])
    IN  <<second[1], third[1], second[2]>>

\* main, lines 180-186: (dm1, dm2) come from the two input files, then
\* (dm1, cdm) from the first input file and the control file; the second
\* assignment replaces dm1_labels and dm1 and leaves dm2 as it was.
PartialMantelArgs(file1, file2, control) ==
    LET first == MakeCompatibleDistanceMatrices(file1, file2)
        second == MakeCompatibleDistanceMatrices(file1, control)
    IN  <<second[1], first[2], second[2]>>

InitScript == DmIdle /\ CsIdle /\ PtIdle /\ McIdle /\ CatIdle /\ FnIdle

\* main with --method partial_mantel, up to the construction of
\* PartialMantel, a CorrelationStats of the three matrices.
PartialMantelBranch ==
    /\ script_files = <<>>
    /\ \E file1 \in InputFiles, file2 \in InputFiles, control \in InputFiles :
         LET args == PartialMantelArgs(LabelsAndData(file1), LabelsAndData(file2),
                                       LabelsAndData(control))
             made == [k \in 1 .. 3 |->
                        DistanceMatrixInit(args[k].data,
                                           <<Len(args[k].labels), Len(args[k].labels)>>,
                                           args[k].labels, args[k].labels)]
         IN  /\ script_files' = <<file1, file2, control>>
             /\ IF \E k \in 1 .. 3 : made[k].error # "none"
                THEN /\ pm_args' = <<>>
                     /\ script_error' = "ValueError"
                ELSE /\ pm_args' = [k \in 1 .. 3 |-> made[k].dm]
                     /\ script_error' =
                           CorrelationStatsInit(PyList([k \in 1 .. 3 |-> made[k].dm])).error
    /\ UNCHANGED <<dmVars, csVars, ptVars, mcVars, catVars, random_fn,
                   pearson_args, pearson_r, held_list, wfVars>>

NextScript == PartialMantelBranch

SpecScript == InitScript /\ [][NextScript]_vars

\* C29: in the partial_mantel branch of the script the three matrices handed
\* to PartialMantel (first input, second input, control) have the same
\* sample id sequence and the same size, also when the sample sets of the
\* three input files overlap only in part.
C29_PartialMantelArgsAgree ==
    pm_args # <<>> =>
        \A k \in 1 .. 3 :
            /\ pm_args[k].SampleIds = pm_args[1].SampleIds
            /\ getSize(pm_args[k]) = getSize(pm_args[1])

-----------------------------------------------------------------------------
(* workflow.py: _collate_results and _collate_category_results.  The      *)
(* class of the results holders (StatsResults, of microbiogeo.util) is not *)
(* among the sources; a holder is the list of the addResult calls made on  *)
(* it, empty when constructed.  Effect sizes and p-values are kept in      *)
(* halves, so that medians are integers.                                   *)

\* The methods _collate_results leaves out, were BEST collated
SkippedMethodsCorrelogramOnly == {"mantel_corr"}

\* The methods _collate_results leaves out (line 165)
SkippedMethods == {"mantel_corr", "best"}

\* The method types _collate_results knows (lines 186-200)
KnownMethodTypes == {"grouping", "gradient"}

\* results_parsing_fn(f) for the result file of matrix number num: the
\* effect size and the p-value in it (in halves)
ParseResults(num) == [es |-> 2 * num, p_val |-> 2 * num]

\* The k-th smallest element of a list of numbers
KthSmallest(xs, k) ==
    CHOOSE v \in Elements(xs) :
        /\ Cardinality({a \in DOMAIN xs : xs[a] < v}) < k
        /\ Cardinality({a \in DOMAIN xs : xs[a] <= v}) >= k

\* numpy.median of a list of numbers in halves, in halves
Median(xs) ==
    IF Len(xs) % 2 = 1
    THEN KthSmallest(xs, (Len(xs) + 1) \div 2)
    ELSE (KthSmallest(xs, Len(xs) \div 2) + KthSmallest(xs, Len(xs) \div 2 + 1)) \div 2

\* StatsResults.addResult
AddResult(holder, es, p_val) == Append(holder, [es |-> es, p_val |-> p_val])

\* The results read from the files of one kind ("shuffled", "subsampled"),
\* numbered 1 .. count: those that exist, in order
ResultsRead(existing, kind, count) ==
    IF kind \in existing THEN [k \in 1 .. count |-> ParseResults(k)] ELSE <<>>

\* One holder after the files of a kind were looked for: the medians of the
\* results read are added when there are any.
WithMedians(holder, read) ==
    IF read # <<>>
    THEN AddResult(holder, Median([k \in DOMAIN read |-> read[k].es]),
                   Median([k \in DOMAIN read |-> read[k].p_val]))
    ELSE holder

\* _collate_category_results: the three holders after the call.  The files
\* of the subsets are looked for per subset size, the method type deciding
\* their names; an unknown method type raises there.
CollateCategoryResults(holders, method_type, subset_sizes, args) ==
    LET num_shuffled == args.num_shuffled
        num_subsets == args.num_subsets
        existing == args.existing
    IN
    [error |-> IF /\ method_type \notin KnownMethodTypes
                  /\ subset_sizes # <<>>
                  /\ num_subsets >= 1
               THEN "ValueError" ELSE holders.error,
     full |-> IF "full" \in existing
              THEN AddResult(holders.full, ParseResults(1).es, ParseResults(1).p_val)
              ELSE holders.full,
     shuffled |-> WithMedians(holders.shuffled,
                              ResultsRead(existing, "shuffled", num_shuffled)),
     subsampled |-> [k \in DOMAIN holders.subsampled |->
                        WithMedians(holders.subsampled[k],
                                    ResultsRead(existing, "subsampled", num_subsets))]]

\* The calls of _collate_category_results for one category, one per
\* permutation count
RECURSIVE CollateOverPermutations(_, _, _, _, _)
CollateOverPermutations(holders, perms, method_type, subset_sizes, args) ==
    IF perms = <<>>
    THEN holders
    ELSE CollateOverPermutations(
            CollateCategoryResults(holders, method_type, subset_sizes, args),
            Tail(perms), method_type, subset_sizes, args)

\* category_res of one method and one category (lines 203-230): Moran's I
\* is collated once, every other method once per permutation count.
CategoryRes(method, method_type, subset_sizes, args) ==
    LET fresh == [error |-> "none", full |-> <<>>, shuffled |-> <<>>,
                  subsampled |-> [k \in DOMAIN subset_sizes |-> <<>>]]
        after == CollateOverPermutations(
                    fresh,
                    IF method = "morans_i" THEN <<0>> ELSE args.permutations,
                    method_type, subset_sizes, args)
    IN  [full |-> after.full, shuffled |-> after.shuffled,
         subsampled |-> after.subsampled]

\* subset_sizes and categories of a study for a method type (lines 186-197)
SubsetSizesOf(study, method_type) ==
    IF method_type = "grouping" THEN study.group_sizes ELSE study.subset_sizes

CategoriesOf(study, method_type) ==
    IF method_type = "grouping"
    THEN study.grouping_categories
    ELSE study.gradient_categories \o <<"key_distance">>

\* The loops of _collate_results reach the raise of line 199: some method
\* type is unknown, has a method that is not left out, and there is a depth,
\* a metric and a study to go through.
ReachesUnknownMethodType(args) ==
    /\ args.depth_descs # <<>>
    /\ args.metrics # {}
    /\ DOMAIN args.studies # {}
    /\ \E method_type \in DOMAIN args.methods :
          /\ method_type \notin KnownMethodTypes
          /\ args.methods[method_type] \ SkippedMethods # {}

\* _collate_results
CollateResults(args) ==
    IF ReachesUnknownMethodType(args)
    THEN [error |-> "ValueError", results |-> <<>>]
    ELSE [error |-> "none",
          results |->
            [depth_desc \in Elements(args.depth_descs) |->
              [metric \in args.metrics |->
                [method_type \in DOMAIN args.methods |->
                  [method \in args.methods[method_type] \ SkippedMethods |->
                    [study \in DOMAIN args.studies |->
                      [category \in Elements(CategoriesOf(args.studies[study],
                                                          method_type)) |->
                        CategoryRes(method, method_type,
                                    SubsetSizesOf(args.studies[study], method_type),
                                    args)]]]]]]]

-----------------------------------------------------------------------------
(* Specification SpecWorkflow: _collate_results is called once.            *)

AllDepthDescs == <<"5_percent", "25_percent", "50_percent">>

DepthDescs == {SubSeq(AllDepthDescs, 1, n) : n \in 0 .. MaxDepths}

MethodTypes == {"grouping", "gradient", "ordination"}

\* The methods of a method type: some that are collated and some left out
MethodSets == {{"mantel", "mantel_corr"}, {"morans_i", "best"}, {"best"}}

MethodDicts == UNION {[types -> MethodSets] : types \in SUBSET MethodTypes}

SizeList(n) == [k \in 1 .. n |-> k + 2]

\* The studies: none, or the overview study with one depth per depth
\* description
StudyDicts ==
    {[study \in names |->
        [depths |-> [k \in 1 .. MaxDepths |-> 50 * k],
         grouping_categories |-> <<"Treatment">>,
         gradient_categories |-> <<"DOB">>,
         group_sizes |-> SizeList(g),
         subset_sizes |-> SizeList(n)]] :
        names \in {{}, {"overview"}}, g \in 0 .. MaxSizes, n \in 0 .. MaxSizes}

\* The kinds of result files that exist
ExistingFiles == {{}, {"full"}, {"full", "shuffled", "subsampled"}}

InitWorkflow == DmIdle /\ CsIdle /\ PtIdle /\ McIdle /\ CatIdle /\ FnIdle

\* _collate_results(in_dir, studies, methods, depth_descs, metrics,
\*                  permutations, num_shuffled, num_subsets)
CollateResultsCall ==
    /\ wf_args = <<>>
    /\ \E depth_descs \in DepthDescs, metrics \in SUBSET {"unweighted_unifrac"},
          methods \in MethodDicts, studies \in StudyDicts,
          runs \in 0 .. MaxRuns, existing \in ExistingFiles :
         LET args == [depth_descs |-> depth_descs, metrics |-> metrics,
                      methods |-> methods, studies |-> studies,
                      permutations |-> <<99, 999>>,
                      num_shuffled |-> runs, num_subsets |-> runs,
                      existing |-> existing]
             res == CollateResults(args)
         IN  /\ wf_args' = args
             /\ wf_error' = res.error
             /\ wf_results' = res.results
    /\ UNCHANGED <<dmVars, csVars, ptVars, mcVars, catVars, random_fn,
                   pearson_args, pearson_r, held_list, scriptVars>>

NextWorkflow == CollateResultsCall

SpecWorkflow == InitWorkflow /\ [][NextWorkflow]_vars

\* The entries of collated results: the paths depth, metric, method type,
\* method, study to a dictionary of categories.
StudyEntries ==
    {<<d, m, t, meth, st>> \in
        Elements(wf_args.depth_descs) \X wf_args.metrics \X (DOMAIN wf_args.methods)
            \X {"mantel", "morans_i", "mantel_corr", "best"} \X (DOMAIN wf_args.studies) :
        meth \in DOMAIN wf_results[d][m][t]}

\* The categories and the subset sizes configured for a study and a method type
ConfiguredCategories(st, t) ==
    IF t = "grouping" THEN Elements(wf_args.studies[st].grouping_categories)
    ELSE Elements(wf_args.studies[st].gradient_categories)

ConfiguredSizes(st, t) ==
    IF t = "grouping" THEN wf_args.studies[st].group_sizes
    ELSE wf_args.studies[st].subset_sizes

\* The number of times the files of a method are looked for
TimesCollated(meth) == IF meth = "morans_i" THEN 1 ELSE Len(wf_args.permutations)

\* The parts of the claim about the results that are returned: no method
\* left out is in them, every remaining method has its entry for every
\* study and category, with exactly the three keys and one holder per subset
\* size, and a holder is empty when its files do not exist.
CollatedResultsWellFormed ==
    (wf_args # <<>> /\ wf_error = "none") =>
        /\ \A d \in Elements(wf_args.depth_descs), m \in wf_args.metrics,
              t \in DOMAIN wf_args.methods :
              /\ DOMAIN wf_results[d][m][t] \cap {"mantel_corr", "best"} = {}
              /\ wf_args.methods[t] \ {"mantel_corr", "best"}
                    \subseteq DOMAIN wf_results[d][m][t]
        /\ \A e \in StudyEntries :
              \A c \in ConfiguredCategories(e[5], e[3]) :
                 /\ c \in DOMAIN wf_results[e[1]][e[2]][e[3]][e[4]][e[5]]
                 /\ LET entry == wf_results[e[1]][e[2]][e[3]][e[4]][e[5]][c]
                        files == wf_args.existing
                    IN  /\ DOMAIN entry = {"full", "shuffled", "subsampled"}
                        /\ Len(entry.subsampled) = Len(ConfiguredSizes(e[5], e[3]))
                        /\ Len(entry.full) =
                              IF "full" \in files THEN TimesCollated(e[4]) ELSE 0
                        /\ Len(entry.shuffled) =
                              IF "shuffled" \in files /\ wf_args.num_shuffled >= 1
                              THEN TimesCollated(e[4]) ELSE 0
                        /\ \A k \in DOMAIN entry.subsampled :
                              Len(entry.subsampled[k]) =
                                 IF "subsampled" \in files /\ wf_args.num_subsets >= 1
                                 THEN TimesCollated(e[4]) ELSE 0

=============================================================================
